---- MODULE Spec2Model ----
(***************************************************************************)
(* A model of src/main.py (Angel Pro option chain viewer): the strike      *)
(* window selection (get_chain_data), the instrument master cache          *)
(* (load_token_master) and the auto refresh loop (auto_loop, toggle_auto,  *)
(* refresh_chain).                                                         *)
(*                                                                         *)
(* Three groups of variables are driven by three specifications:           *)
(*   SpecSel    get_chain_data applied to bounded inputs                   *)
(*   SpecCache  concurrent load_token_master calls on the cache file       *)
(*   Spec       login, the Auto switch, the polling threads and the        *)
(*              refresh button                                             *)
(***************************************************************************)
EXTENDS Integers, Sequences, FiniteSets, TLC

VARIABLES
    \* ---- AppState (src/main.py:77-88)
    master_data,     \* state.master_data: sequence of instrument records
    strike_count,    \* state.strike_count
    \* ---- one call of get_chain_data(symbol, expiry, spot)
    sel_symbol,      \* argument symbol
    sel_expiry,      \* argument expiry
    sel_spot,        \* argument spot
    sel_pc,          \* "ready" before the call, "done" after it
    chain_out,       \* the returned final_data
    atm_out,         \* the local atm_index at the return (-1: not computed)
    \* ---- the cache file and the calls of load_token_master
    file,            \* CACHE_FILE on disk: exists, age (hours since mtime), chunks
    call,            \* per caller thread: its position and locals
    last_fresh,      \* <<optimized>> of the last refresh that closed the file and
                     \* has not been followed by another open for writing; else <<>>
    \* ---- the session, the widgets and the threads
    headers,         \* state.headers is set
    logged_in,       \* state.logged_in
    idx_dd,          \* idx_dd.value
    exp_dd,          \* exp_dd.value ("" when nothing is selected)
    auto_switch,     \* auto_switch.value
    auto_refresh,    \* state.auto_refresh
    thr,             \* per thread: its position and the locals spot, chain
    chain_table,     \* chain_table.rows
    spot_display,    \* the spot shown by spot_display
    notice,          \* the last message of show_alert / show_snack
    set_text,        \* the texts of set_rfr, set_iv, set_alert, set_strikes
    settings,        \* state.risk_free_rate, model_iv, alert_threshold
    failed_chunks,   \* failed quote requests of the last cycle that built rows
    cycle_log,       \* that cycle: the settings at its start and those it used
    \* ---- the row loop of refresh_chain on the chain of one call
    rows_pc,         \* "idle", "ready" before the loop, "done" or "raised" after it
    rows_quotes,     \* the dict quotes: token -> price
    rows_out,        \* the rows built: strike, the token of each leg, its price
    \* ---- one call of black_scholes_price or calculate_implied_volatility
    pr_pc,           \* "idle", "ready" before the call, "loop" in it, "done" after it
    pr_in,           \* the function called and its arguments
    pr_out,          \* the returned value
    iv_v,            \* the local v of calculate_implied_volatility
    iv_i,            \* its loop variable i
    iv_exit,         \* the way it left the loop
    \* ---- one call of get_expiries(symbol)
    ex_pc,           \* "idle", "ready" before the call, "done" after it
    ex_symbol,       \* argument symbol
    ex_today,        \* datetime.now().date(), as year * 10000 + month * 100 + day
    ex_list,         \* exps_list after the sort of line 184
    ex_out,          \* the returned list
    \* ---- one call of get_batch_quotes(tokens, exchange)
    q_pc,            \* "idle", "ready" before the call, "loop" in it, "done" after it
    q_tokens,        \* argument tokens
    q_i,             \* the loop variable i
    q_sent,          \* the chunks of the requests posted so far, in order
    q_results,       \* the dict results: token -> price (in 1/100)
    q_failed,        \* number of chunks whose try block did not run to its end
    q_returned,      \* the tokens of the items of the replies read to their end
    q_fetched        \* the list d['data']['fetched'] of the last reply, <<>> without one

appVars == <<master_data, strike_count>>
selVars == <<sel_symbol, sel_expiry, sel_spot, sel_pc, chain_out, atm_out>>
cacheVars == <<file, call, last_fresh>>
panelVars == <<spot_display, notice, set_text, settings, failed_chunks, cycle_log>>
schedVars == <<headers, logged_in, idx_dd, exp_dd, auto_switch, auto_refresh, thr, chain_table,
               panelVars>>
quoteVars == <<q_pc, q_tokens, q_i, q_sent, q_results, q_failed, q_returned, q_fetched>>
expVars == <<ex_pc, ex_symbol, ex_today, ex_list, ex_out>>
priceVars == <<pr_pc, pr_in, pr_out, iv_v, iv_i, iv_exit>>
rowVars == <<rows_pc, rows_quotes, rows_out>>
vars == <<appVars, selVars, cacheVars, schedVars, quoteVars, expVars, priceVars, rowVars>>

\* what the steps of one part of the program leave alone
notSelVars ==
    <<cacheVars, schedVars, quoteVars, expVars, priceVars, rowVars>>
notCacheVars ==
    <<appVars, selVars, schedVars, quoteVars, expVars, priceVars, rowVars>>
notSchedVars ==
    <<selVars, cacheVars, quoteVars, expVars, priceVars, rowVars>>
notQuoteVars ==
    <<appVars, selVars, cacheVars, schedVars, expVars, priceVars, rowVars>>
notExpVars ==
    <<appVars, selVars, cacheVars, schedVars, quoteVars, priceVars, rowVars>>
notPriceVars ==
    <<appVars, selVars, cacheVars, schedVars, quoteVars, expVars, rowVars>>
notRowVars == <<appVars, selVars, cacheVars, schedVars, quoteVars, expVars, priceVars>>

(***************************************************************************)
(* Generic helpers                                                         *)
(***************************************************************************)
Max(a, b) == IF a >= b THEN a ELSE b
Min(a, b) == IF a <= b THEN a ELSE b
Abs(a) == IF a < 0 THEN -a ELSE a

SeqRange(s) == {s[i] : i \in DOMAIN s}

\* sorted(list(S)) for a finite set of integers
RECURSIVE Sorted(_)
Sorted(S) ==
    IF S = {} THEN <<>>
    ELSE LET m == CHOOSE x \in S : \A y \in S : x <= y
         IN  <<m>> \o Sorted(S \ {m})

\* Python's seq[a:b] with a, b already integers (negative indices count from
\* the end, both are clipped to 0..len)
PyIndex(len, i) == IF i < 0 THEN Max(0, len + i) ELSE Min(len, i)
PySlice(s, a, b) ==
    LET lo == PyIndex(Len(s), a)
        hi == PyIndex(Len(s), b)
    IN  IF lo >= hi THEN <<>> ELSE SubSeq(s, lo + 1, hi)

(***************************************************************************)
(* Instrument records.  A record of state.master_data is a dict; the keys  *)
(* the program reads are name, expiry, strike_real, symbol, token and      *)
(* exch_seg.  Missing stands for an absent key.                            *)
(***************************************************************************)
Missing == <<"<absent>">>

Instr(n, e, k, sym, tok, seg) ==
    [name |-> n, expiry |-> e, strike_real |-> k,
     symbol |-> sym, token |-> tok, exch_seg |-> seg]

\* The text of a symbol is a sequence of characters: the characters of the
\* underlying's name followed by those of the option type.
NameText(n) ==
    CASE n = "NIFTY" -> <<"N", "I", "F", "T", "Y">>
      [] n = "SENSEX" -> <<"S", "E", "N", "S", "E", "X">>
      [] n = "RELIANCE" -> <<"R", "E", "L", "I", "A", "N", "C", "E">>
      [] OTHER -> <<"X">>

LegText(leg) ==
    CASE leg = "CE" -> <<"C", "E">>
      [] leg = "PE" -> <<"P", "E">>
      [] OTHER -> <<"F", "U", "T">>

SymbolText(n, leg) == NameText(n) \o LegText(leg)

\* text.endswith(sub)
EndsWith(text, sub) ==
    Len(text) >= Len(sub) /\ SubSeq(text, Len(text) - Len(sub) + 1, Len(text)) = sub

\* sub in text, for two texts
Contains(text, sub) ==
    \E i \in 1 .. (Len(text) - Len(sub) + 1) : SubSeq(text, i, i + Len(sub) - 1) = sub

(***************************************************************************)
(* get_chain_data (src/main.py:194-233)                                    *)
(***************************************************************************)
\* lines 202-205: the records of this symbol and expiry, in master order
Candidates(md, symbol, expiry) ==
    SelectSeq(md, LAMBDA x : x.name = symbol /\ x.expiry = expiry)

\* line 210: sorted(list(set(x['strike_real'] for x in candidates)))
UniqueStrikes(cands) == Sorted({cands[i].strike_real : i \in DOMAIN cands})

\* lines 214-220: the scan for the closest strike.  min_diff is <<>> for
\* float('inf') and <<d>> for a finite d; i and atm_index are 0-based.
RECURSIVE AtmScan(_, _, _, _, _)
AtmScan(us, spot, i, min_diff, atm_index) ==
    IF i >= Len(us) THEN atm_index
    ELSE LET diff == Abs(us[i + 1] - spot)
         IN  IF min_diff = <<>> \/ diff < min_diff[1]
             THEN AtmScan(us, spot, i + 1, <<diff>>, i)
             ELSE AtmScan(us, spot, i + 1, min_diff, atm_index)

\* the same scan with "diff <= min_diff": the last closest strike wins
RECURSIVE AtmScanLast(_, _, _, _, _)
AtmScanLast(us, spot, i, min_diff, atm_index) ==
    IF i >= Len(us) THEN atm_index
    ELSE LET diff == Abs(us[i + 1] - spot)
         IN  IF min_diff = <<>> \/ diff <= min_diff[1]
             THEN AtmScanLast(us, spot, i + 1, <<diff>>, i)
             ELSE AtmScanLast(us, spot, i + 1, min_diff, atm_index)

AtmIndexLast(us, spot) == AtmScanLast(us, spot, 0, <<>>, 0)

AtmIndex(us, spot) == AtmScan(us, spot, 0, <<>>, 0)

\* the slice with end_idx = atm_index + count: the upper side one short
SelectedStrikesShort(us, atm_index, count) ==
    PySlice(us, Max(0, atm_index - count), Min(Len(us), atm_index + count))

\* lines 223-227: start_idx, end_idx and the slice
SelectedStrikes(us, atm_index, count) ==
    PySlice(us, Max(0, atm_index - count), Min(Len(us), atm_index + count + 1))

\* line 231: list.sort(key=strike_real) is stable: records of one strike keep
\* their order
RECURSIVE ConcatByStrike(_, _)
ConcatByStrike(data, strikes) ==
    IF strikes = <<>> THEN <<>>
    ELSE SelectSeq(data, LAMBDA x : x.strike_real = Head(strikes))
         \o ConcatByStrike(data, Tail(strikes))

SortByStrike(data) ==
    ConcatByStrike(data, Sorted({data[i].strike_real : i \in DOMAIN data}))

\* lines 229-233
FinalData(cands, selected_strikes) ==
    SortByStrike(SelectSeq(cands, LAMBDA x : x.strike_real \in SeqRange(selected_strikes)))

\* The whole function.  expiry = "" stands for an unset (falsy) expiry.
get_chain_data(md, count, symbol, expiry, spot) ==
    IF spot = 0 \/ expiry = "" THEN <<>>
    ELSE LET candidates == Candidates(md, symbol, expiry)
         IN  IF candidates = <<>> THEN <<>>
             ELSE LET unique_strikes == UniqueStrikes(candidates)
                      atm_index == AtmIndex(unique_strikes, spot)
                  IN  FinalData(candidates,
                                SelectedStrikes(unique_strikes, atm_index, count))

\* the local atm_index when line 220 is reached, -1 when the function
\* returns before it
AtmOf(md, symbol, expiry, spot) ==
    IF spot = 0 \/ expiry = "" \/ Candidates(md, symbol, expiry) = <<>> THEN -1
    ELSE AtmIndex(UniqueStrikes(Candidates(md, symbol, expiry)), spot)

(***************************************************************************)
(* The inputs get_chain_data is applied to, and its call                   *)
(***************************************************************************)
MaxRadius == 2

StrikeUniverse == {23800, 23900, 24000, 24100, 24200}
SpotValues == {0, 23700, 23850, 24000, 24040, 24150, 24300}
RadiusValues == (0 - 2) .. MaxRadius
ExpiryValues == {"", "28NOV2026"}

\* one CE and one PE record of a strike
Pair(n, e, k) ==
    <<Instr(n, e, k, SymbolText(n, "CE"), <<k, 1>>, <<"N", "F", "O">>),
      Instr(n, e, k, SymbolText(n, "PE"), <<k, 2>>, <<"N", "F", "O">>)>>

RECURSIVE MasterOf(_, _, _)
\* strikes: a sequence of strikes; legs = 2: both legs, 1: the CE leg only
MasterOf(strikes, legs, e) ==
    IF strikes = <<>> THEN <<>>
    ELSE SubSeq(Pair("NIFTY", e, Head(strikes)), 1, legs)
         \o MasterOf(Tail(strikes), legs, e)

Reverse(s) == [i \in 1..Len(s) |-> s[Len(s) + 1 - i]]

\* the masters get_chain_data is applied to: any subset of the strikes, in
\* ascending or descending file order, with both legs or one, followed by
\* records of another underlying and of another expiry
SelMasters ==
    {(IF rev THEN Reverse(MasterOf(Sorted(S), legs, e)) ELSE MasterOf(Sorted(S), legs, e))
       \o Pair("SENSEX", "28NOV2026", 81000) \o Pair("NIFTY", "31DEC2026", 24500) :
       S \in SUBSET StrikeUniverse, legs \in {1, 2}, rev \in BOOLEAN, e \in ExpiryValues}

CallGetChainData ==
    /\ sel_pc = "ready"
    /\ chain_out' = get_chain_data(master_data, strike_count, sel_symbol, sel_expiry, sel_spot)
    /\ atm_out' = AtmOf(master_data, sel_symbol, sel_expiry, sel_spot)
    /\ sel_pc' = "done"
    /\ UNCHANGED <<appVars, sel_symbol, sel_expiry, sel_spot, notSelVars>>


(***************************************************************************)
(* The instrument master: download, filter, normalise (src/main.py:117-132)*)
(* Text values are sequences of characters, so that split, strip and upper *)
(* are computed.                                                           *)
(***************************************************************************)
NFO == <<"N", "F", "O">>
BFO == <<"B", "F", "O">>

IsSpace(c) == c = " "

\* str.strip(): leading and trailing blanks removed
RECURSIVE LStrip(_)
LStrip(s) == IF s # <<>> /\ IsSpace(Head(s)) THEN LStrip(Tail(s)) ELSE s

RECURSIVE RStrip(_)
RStrip(s) ==
    IF s # <<>> /\ IsSpace(s[Len(s)]) THEN RStrip(SubSeq(s, 1, Len(s) - 1)) ELSE s

Strip(s) == RStrip(LStrip(s))

\* str.split('.')[0]: the text before the first dot
RECURSIVE BeforeDot(_)
BeforeDot(s) ==
    IF s = <<>> \/ Head(s) = "." THEN <<>> ELSE <<Head(s)>> \o BeforeDot(Tail(s))

\* str.upper() on the letters that occur in segment names
UpperChar(c) ==
    CASE c = "n" -> "N"
      [] c = "f" -> "F"
      [] c = "o" -> "O"
      [] c = "b" -> "B"
      [] OTHER -> c

Upper(s) == [i \in DOMAIN s |-> UpperChar(s[i])]

\* line 128
NormToken(tok) == Strip(BeforeDot(tok))

\* line 129
NormSeg(seg) == Strip(Upper(seg))

\* lines 130-131: float(strike) / 100.0, 0.0 when strike is not a number.
\* A raw strike is <<n>> for the number n (the exchange lists strikes in
\* paise, multiples of 100) and <<>> for a value float() rejects.
StrikeReal(strike) == IF strike = <<>> THEN 0 ELSE strike[1] \div 100

AllowedNames == {"NIFTY", "BANKNIFTY", "FINNIFTY", "SENSEX", "MIDCPNIFTY"}

\* line 127
Retained(item) ==
    /\ item.instrumenttype \in {"OPTIDX", "OPTSTK"}
    /\ item.name \in AllowedNames

\* lines 128-131: the item with token and exch_seg replaced and strike_real
\* added; its other keys are kept
Normalize(item) ==
    [instrumenttype |-> item.instrumenttype,
     name |-> item.name,
     expiry |-> item.expiry,
     symbol |-> item.symbol,
     strike |-> item.strike,
     token |-> NormToken(item.token),
     exch_seg |-> NormSeg(item.exch_seg),
     strike_real |-> StrikeReal(item.strike)]

\* lines 122-132
RECURSIVE Optimized(_)
Optimized(data) ==
    IF data = <<>> THEN <<>>
    ELSE (IF Retained(Head(data)) THEN <<Normalize(Head(data))>> ELSE <<>>)
         \o Optimized(Tail(data))

(***************************************************************************)
(* json.dump / json.load (src/main.py:114, 133).  The text of the file is  *)
(* a sequence of chunks: "[", one object per record, "]".  An object is    *)
(* the sequence of its "key": literal members; a literal keeps the JSON    *)
(* type of the value (text or number).                                     *)
(***************************************************************************)
Chunk(kind, members) == [kind |-> kind, members |-> members]

ArrayOpen == Chunk("[", <<>>)
ArrayClose == Chunk("]", <<>>)
Hole == Chunk("hole", <<>>)

JsonMembers(rec) ==
    <<<<"instrumenttype", <<"s", rec.instrumenttype>>>>,
      <<"name", <<"s", rec.name>>>>,
      <<"expiry", <<"s", rec.expiry>>>>,
      <<"symbol", <<"s", rec.symbol>>>>,
      <<"strike", <<"v", rec.strike>>>>,
      <<"token", <<"s", rec.token>>>>,
      <<"exch_seg", <<"s", rec.exch_seg>>>>,
      <<"strike_real", <<"n", rec.strike_real>>>> >>

JsonObject(rec) == Chunk("object", JsonMembers(rec))

\* json.dump(optimized, f): the chunks written, in order
JsonDump(recs) ==
    <<ArrayOpen>> \o [i \in DOMAIN recs |-> JsonObject(recs[i])] \o <<ArrayClose>>

IsObject(c) == c.kind = "object"

Member(obj, key) == CHOOSE i \in DOMAIN obj.members : obj.members[i][1] = key

JsonValue(obj, key) == obj.members[Member(obj, key)][2][2]

\* a load that divides strike_real by 100 once more

JsonRecordRescaled(obj) ==
    [instrumenttype |-> JsonValue(obj, "instrumenttype"),
     name |-> JsonValue(obj, "name"),
     expiry |-> JsonValue(obj, "expiry"),
     symbol |-> JsonValue(obj, "symbol"),
     strike |-> JsonValue(obj, "strike"),
     token |-> JsonValue(obj, "token"),
     exch_seg |-> JsonValue(obj, "exch_seg"),
     strike_real |-> JsonValue(obj, "strike_real") \div 100]

\* the dict json.load builds from one object
JsonRecord(obj) ==
    [instrumenttype |-> JsonValue(obj, "instrumenttype"),
     name |-> JsonValue(obj, "name"),
     expiry |-> JsonValue(obj, "expiry"),
     symbol |-> JsonValue(obj, "symbol"),
     strike |-> JsonValue(obj, "strike"),
     token |-> JsonValue(obj, "token"),
     exch_seg |-> JsonValue(obj, "exch_seg"),
     strike_real |-> JsonValue(obj, "strike_real")]

\* json.load accepts the text: "[", objects only, "]" and nothing after it
Parsable(chunks) ==
    /\ Len(chunks) >= 2
    /\ chunks[1].kind = "["
    /\ chunks[Len(chunks)].kind = "]"
    /\ \A i \in 2 .. (Len(chunks) - 1) : IsObject(chunks[i])

\* json.load(f) of a parsable text
JsonLoad(chunks) == [i \in 1 .. (Len(chunks) - 2) |-> JsonRecord(chunks[i + 1])]

(***************************************************************************)
(* The cache file.  A write of one chunk at offset pos through a file      *)
(* object opened with 'w': the file grows (with a hole) when it is shorter *)
(* than pos, and the chunk at pos is overwritten when it is longer.        *)
(***************************************************************************)
WriteAt(chunks, pos, c) ==
    LET len == Max(Len(chunks), pos + 1)
    IN  [i \in 1 .. len |->
            IF i = pos + 1 THEN c
            ELSE IF i <= Len(chunks) THEN chunks[i] ELSE Hole]

NoFile == [exists |-> FALSE, age |-> 0, chunks |-> <<>>]

\* timedelta(hours=12), line 112
MAX_AGE_HOURS == 12

\* the ages (in hours) at which the file is observed
AgeGrid == {0, 11, 12, 13}

\* line 112 with "<=" for "<"
FreshInclusive(age) == age <= MAX_AGE_HOURS

\* line 112: datetime.now() - file_time < timedelta(hours=12)
Fresh(age) == age < MAX_AGE_HOURS

(***************************************************************************)
(* What the master file provider answers (line 120-121): a failure (an     *)
(* exception of requests.get or r.json()) or a list of raw items.          *)
(***************************************************************************)
RawItem(itype, n, tok, seg, strike, leg) ==
    [instrumenttype |-> itype, name |-> n, expiry |-> "28NOV2026",
     symbol |-> SymbolText(n, leg), strike |-> strike, token |-> tok, exch_seg |-> seg]

MasterA ==
    <<RawItem("OPTIDX", "NIFTY", <<"4", "2", ".", "0">>, <<"n", "f", "o", " ">>, <<2400000>>, "CE"),
      RawItem("FUTIDX", "NIFTY", <<"7">>, NFO, <<>>, "FUT")>>

MasterB ==
    <<RawItem("OPTSTK", "RELIANCE", <<"9">>, NFO, <<130000>>, "CE"),
      RawItem("OPTIDX", "SENSEX", <<" ", "5", "1">>, <<"b", "f", "o">>, <<8100000>>, "PE"),
      RawItem("OPTIDX", "NIFTY", <<"4", "3">>, NFO, <<>>, "PE")>>

DownloadReplies ==
    {[ok |-> FALSE, data |-> <<>>], [ok |-> TRUE, data |-> MasterA],
     [ok |-> TRUE, data |-> MasterB]}

(***************************************************************************)
(* load_token_master (src/main.py:108-137), one step per system call.      *)
(* call[t].pc:  idle -> stat -> open_r -> reading -> download -> open_w    *)
(*              -> writing -> done -> idle                                 *)
(***************************************************************************)
MaxCallers == 2

Callers == 1 .. MaxCallers

IdleCall ==
    [pc |-> "idle", optimized |-> <<>>, pos |-> 0, prior |-> <<>>,
     outcome |-> "", result |-> <<>>]

\* login_click calls load_token_master (line 466)
LtmCall(t) ==
    /\ call[t].pc = "idle"
    /\ call' = [call EXCEPT ![t].pc = "stat"]
    /\ UNCHANGED <<file, last_fresh, notCacheVars>>

\* lines 109-112: os.path.exists, getmtime and the comparison of the age
LtmStat(t) ==
    /\ call[t].pc = "stat"
    /\ call' = [call EXCEPT ![t].pc = IF file.exists /\ Fresh(file.age)
                                      THEN "open_r" ELSE "download"]
    /\ UNCHANGED <<file, last_fresh, notCacheVars>>

\* line 114: open(CACHE_FILE, 'r')
LtmOpenRead(t) ==
    /\ call[t].pc = "open_r"
    /\ call' = [call EXCEPT ![t].pc = "reading"]
    /\ UNCHANGED <<file, last_fresh, notCacheVars>>

\* line 114-115: json.load(f); a text it rejects raises, and "except: pass"
\* falls through to the download
LtmRead(t) ==
    /\ call[t].pc = "reading"
    /\ IF Parsable(file.chunks)
       THEN call' = [call EXCEPT ![t].pc = "done",
                                 ![t].outcome = "hit",
                                 ![t].result = JsonLoad(file.chunks)]
       ELSE call' = [call EXCEPT ![t].pc = "download"]
    /\ UNCHANGED <<file, last_fresh, notCacheVars>>

\* lines 117-132 and 135-137: the download and the filter; a failure returns []
LtmDownload(t) ==
    /\ call[t].pc = "download"
    /\ \E reply \in DownloadReplies :
          IF ~reply.ok
          THEN call' = [call EXCEPT ![t].pc = "done",
                                    ![t].outcome = "error",
                                    ![t].result = <<>>]
          ELSE call' = [call EXCEPT ![t].pc = "open_w",
                                    ![t].optimized = Optimized(reply.data)]
    /\ UNCHANGED <<file, last_fresh, notCacheVars>>

\* line 133: open(CACHE_FILE, 'w') creates or truncates the file
LtmOpenWrite(t) ==
    /\ call[t].pc = "open_w"
    /\ call' = [call EXCEPT ![t].pc = "writing",
                            ![t].pos = 0,
                            ![t].prior = file.chunks]
    /\ file' = [exists |-> TRUE, age |-> 0, chunks |-> <<>>]
    /\ last_fresh' = <<>>
    /\ UNCHANGED notCacheVars

\* line 133: json.dump writes the text through the file object, a chunk at
\* a time
LtmWrite(t) ==
    /\ call[t].pc = "writing"
    /\ call[t].pos < Len(JsonDump(call[t].optimized))
    /\ file' = [file EXCEPT !.chunks = WriteAt(file.chunks, call[t].pos,
                                               JsonDump(call[t].optimized)[call[t].pos + 1]),
                            !.age = 0]
    /\ call' = [call EXCEPT ![t].pos = call[t].pos + 1]
    /\ UNCHANGED <<last_fresh, notCacheVars>>

\* lines 133, 135-137: a write raises (the disk is full): the file is closed
\* as it is and [] is returned
LtmWriteFail(t) ==
    /\ call[t].pc = "writing"
    /\ call[t].pos < Len(JsonDump(call[t].optimized))
    /\ call' = [call EXCEPT ![t] = [IdleCall EXCEPT !.pc = "done", !.outcome = "error"]]
    /\ UNCHANGED <<file, last_fresh, notCacheVars>>

\* lines 133-134: the with block closes the file; return optimized
LtmClose(t) ==
    /\ call[t].pc = "writing"
    /\ call[t].pos = Len(JsonDump(call[t].optimized))
    /\ call' = [call EXCEPT ![t] = [IdleCall EXCEPT !.pc = "done",
                                                    !.outcome = "fresh",
                                                    !.result = call[t].optimized]]
    /\ last_fresh' = <<call[t].optimized>>
    /\ UNCHANGED <<file, notCacheVars>>

\* the caller (login_click, lines 467-480) takes the result
LtmReturn(t) ==
    /\ call[t].pc = "done"
    /\ call' = [call EXCEPT ![t] = IdleCall]
    /\ UNCHANGED <<file, last_fresh, notCacheVars>>

\* the process is killed while a call is running and the app is started
\* again: the threads are gone, the file is as the writes left it
Kill ==
    /\ \E t \in Callers : call[t].pc \notin {"idle", "done"}
    /\ call' = [t \in Callers |-> IdleCall]
    /\ UNCHANGED <<file, last_fresh, notCacheVars>>

\* time passes: the file gets older
Tick ==
    /\ file.exists
    /\ \E a \in AgeGrid :
          /\ a > file.age
          /\ \A b \in AgeGrid : b > file.age => a <= b
          /\ file' = [file EXCEPT !.age = a]
    /\ UNCHANGED <<call, last_fresh, notCacheVars>>

LtmStep(t) ==
    \/ LtmCall(t)
    \/ LtmStat(t)
    \/ LtmOpenRead(t)
    \/ LtmRead(t)
    \/ LtmDownload(t)
    \/ LtmOpenWrite(t)
    \/ LtmWrite(t)
    \/ LtmWriteFail(t)
    \/ LtmClose(t)
    \/ LtmReturn(t)

(***************************************************************************)
(* get_batch_quotes (src/main.py:157-176)                                  *)
(* Prices are kept in units of 1/100, so that "ltp /= 100.0" is exact: a   *)
(* raw value v of a reply (whole rupees) is v * 100 units.                 *)
(***************************************************************************)
chunk_size == 20
SCALE_LIMIT == 50000

\* line 160: [str(t).strip() for t in tokens]
StrTokens(tokens) == [i \in DOMAIN tokens |-> Strip(tokens[i])]

\* line 162 with end = i + chunk_size - 1: one token of every full chunk lost
ChunkAtShort(str_tokens, i, size) == PySlice(str_tokens, i, i + size - 1)

\* line 162: str_tokens[i:i + chunk_size]
ChunkAt(str_tokens, i, size) == PySlice(str_tokens, i, i + size)

\* lines 161-162: the chunks of range(0, len(str_tokens), size), from i on
RECURSIVE ChunksFrom(_, _, _)
ChunksFrom(str_tokens, i, size) ==
    IF i >= Len(str_tokens) THEN <<>>
    ELSE <<ChunkAt(str_tokens, i, size)>> \o ChunksFrom(str_tokens, i + size, size)

\* an item of d['data']['fetched'].  symbolToken is <<>> when the key is
\* absent or empty; ltp and close are <<v>> for a number (or numeric text) v
\* and <<>> for a value float() rejects.
QuoteItem(tok, ltp, close) == [symbolToken |-> tok, ltp |-> ltp, close |-> close]

\* line 173 without the test: every price is divided by 100
ScaledAlways(ltp) == ltp

\* line 173: if ltp > 50000: ltp /= 100.0 (result in 1/100)
Scaled(ltp) == IF ltp > SCALE_LIMIT THEN ltp ELSE ltp * 100

\* lines 171-173 for one item: <<"ok", price>> or <<"raise">> when float()
\* raises
Resolve(item) ==
    IF item.ltp = <<>> THEN <<"raise">>
    ELSE IF item.ltp[1] # 0 THEN <<"ok", Scaled(item.ltp[1])>>
    ELSE IF item.close = <<>> THEN <<"raise">>
    ELSE <<"ok", Scaled(item.close[1])>>

\* results[t] = ltp
DictSet(d, k, v) == [x \in DOMAIN d \cup {k} |-> IF x = k THEN v ELSE d[x]]

\* lines 169-174: the loop over the fetched items; it ends at the first item
\* float() raises for
RECURSIVE StoreItems(_, _)
StoreItems(results, fetched) ==
    IF fetched = <<>> THEN [results |-> results, raised |-> FALSE]
    ELSE LET item == Head(fetched)
             p == Resolve(item)
         IN  IF p[1] = "raise" THEN [results |-> results, raised |-> TRUE]
             ELSE StoreItems(IF item.symbolToken # <<>>
                             THEN DictSet(results, item.symbolToken, p[2])
                             ELSE results,
                             Tail(fetched))

\* A reply to one request (lines 166-168):
\*   "raise"     requests.post or r.json() raises (network error, timeout,
\*               a body that is not JSON)
\*   "status"    d.get("status") is false
\*   "nofetched" status is true and d['data'] has no 'fetched'
\*   "fetched"   status is true and d['data']['fetched'] is the list fetched
QuoteReply(kind, fetched) == [kind |-> kind, fetched |-> fetched]

\* the same with a failure discarding what the earlier chunks stored
AfterReplyDropping(results, reply) ==
    IF reply.kind = "fetched" /\ ~StoreItems(results, reply.fetched).raised
    THEN [results |-> StoreItems(results, reply.fetched).results, complete |-> TRUE]
    ELSE [results |-> <<>>, complete |-> FALSE]

\* lines 165-175 for one reply: the dict afterwards, and whether the try
\* block ran to its end with a fetched list
AfterReply(results, reply) ==
    IF reply.kind = "fetched"
    THEN LET st == StoreItems(results, reply.fetched)
         IN  [results |-> st.results, complete |-> ~st.raised]
    ELSE [results |-> results, complete |-> FALSE]

\* the raw values the quote provider answers with: (ltp, close)
PriceGrid ==
    <<<<120, 95>>, <<0, 95>>, <<50001, 0>>, <<50000, 0>>,
      <<0, 6000000>>, <<0, 0>>, <<6000000, 100>>>>

PriceAt(k) == PriceGrid[(k % Len(PriceGrid)) + 1]

\* the item answered for the j-th token of a chunk, with the grid rotated by p
ItemFor(chunk, j, p) ==
    QuoteItem(chunk[j], <<PriceAt(j + p)[1]>>, <<PriceAt(j + p)[2]>>)

FetchedAll(chunk, p) == [j \in DOMAIN chunk |-> ItemFor(chunk, j, p)]

\* the replies to the request for a chunk: a failure of each kind, every
\* token answered, only the first token answered, an item without a token,
\* and a list whose second item has a last traded price that is not a number
RepliesTo(chunk) ==
    {QuoteReply("raise", <<>>), QuoteReply("status", <<>>), QuoteReply("nofetched", <<>>)}
    \cup {QuoteReply("fetched", FetchedAll(chunk, p)) : p \in 0 .. (Len(PriceGrid) - 1)}
    \cup {QuoteReply("fetched", SubSeq(FetchedAll(chunk, 0), 1, 1))}
    \cup {QuoteReply("fetched", <<QuoteItem(<<>>, <<120>>, <<95>>)>> \o FetchedAll(chunk, 0))}
    \cup {QuoteReply("fetched",
             [FetchedAll(chunk, 0) EXCEPT ![Min(2, Len(chunk))].ltp = <<>>])}

\* the tokens get_batch_quotes is called with: token texts as the master
\* holds them (digits, already stripped by load_token_master)
MaxTokens == 41

Digits == <<"0", "1", "2", "3", "4", "5", "6", "7", "8", "9">>
TokenText(n) == <<Digits[(n \div 10) + 1], Digits[(n % 10) + 1]>>
TokenList(n) == [i \in 1 .. n |-> TokenText(i)]

\* line 157-160: the call
GbqCall ==
    /\ q_pc = "ready"
    /\ q_pc' = "loop"
    /\ q_i' = 0
    /\ q_results' = <<>>
    /\ UNCHANGED <<q_tokens, q_sent, q_failed, q_returned, q_fetched, notQuoteVars>>

\* lines 161-175: one turn of the loop: the chunk is posted, the reply is
\* stored
GbqChunk ==
    /\ q_pc = "loop"
    /\ q_i < Len(q_tokens)
    /\ LET chunk == ChunkAt(StrTokens(q_tokens), q_i, chunk_size)
       IN  /\ q_sent' = Append(q_sent, chunk)
           /\ \E reply \in RepliesTo(chunk) :
                 LET after == AfterReply(q_results, reply)
                 IN  /\ q_results' = after.results
                     /\ q_failed' = IF after.complete THEN q_failed ELSE q_failed + 1
                     /\ q_returned' =
                           IF after.complete
                           THEN q_returned \cup
                                ({reply.fetched[j].symbolToken : j \in DOMAIN reply.fetched}
                                   \ {<<>>})
                           ELSE q_returned
                     /\ q_fetched' = IF reply.kind = "fetched" THEN reply.fetched ELSE <<>>
    /\ q_i' = q_i + chunk_size
    /\ UNCHANGED <<q_pc, q_tokens, notQuoteVars>>

\* line 176: return results
GbqReturn ==
    /\ q_pc = "loop"
    /\ q_i >= Len(q_tokens)
    /\ q_pc' = "done"
    /\ UNCHANGED <<q_tokens, q_i, q_sent, q_results, q_failed, q_returned, q_fetched,
                   notQuoteVars>>

\* get_batch_quotes as a function of the tokens and of the replies to its
\* requests, one per chunk
RECURSIVE QuotesFold(_, _)
QuotesFold(results, replies) ==
    IF replies = <<>> THEN results
    ELSE QuotesFold(AfterReply(results, Head(replies)).results, Tail(replies))

(***************************************************************************)
(* Login, the Auto switch, the polling threads and the refresh button      *)
(* (src/main.py:335-481)                                                   *)
(***************************************************************************)
MaxLoops == 2
MaxHandlers == 1

\* the threads running auto_loop, and the threads the page runs the
\* refresh button's handler in
Loops == 1 .. MaxLoops
Handlers == (MaxLoops + 1) .. (MaxLoops + MaxHandlers)
Threads == Loops \cup Handlers

\* the masters login_click gets from load_token_master: lists of normalised
\* records.  The first lists its records on two exchange segments, so that a
\* cycle sends two quote requests.  The second has a record with no
\* 'symbol' key (the provider left it out; load_token_master reads only
\* instrumenttype, name, token, exch_seg and strike).
MasterGood ==
    <<RawItem("OPTIDX", "NIFTY", <<"4", "1">>, NFO, <<2400000>>, "CE"),
      RawItem("OPTIDX", "NIFTY", <<"4", "2">>, NFO, <<2400000>>, "PE"),
      RawItem("OPTIDX", "NIFTY", <<"4", "3">>, BFO, <<2410000>>, "CE")>>

MasterNoSymbol ==
    <<RawItem("OPTIDX", "NIFTY", <<"4", "1">>, NFO, <<2400000>>, "CE"),
      [RawItem("OPTIDX", "NIFTY", <<"4", "4">>, NFO, <<2410000>>, "PE")
          EXCEPT !.symbol = Missing]>>

\* a master without a record of the index selected at the start (NIFTY)
MasterSensexOnly ==
    <<RawItem("OPTIDX", "SENSEX", <<"8", "1">>, BFO, <<8100000>>, "CE")>>

LoginMasters ==
    {<<>>, Optimized(MasterGood), Optimized(MasterNoSymbol), Optimized(MasterSensexOnly)}

\* what get_spot_price returns (lines 139-155): 0.0 on any failure, else the
\* last traded price
SpotReplies == {0, 24040}

\* lines 178-192, as far as update_expiries uses it: the expiries listed for
\* the symbol
ExpiriesOf(md, symbol) ==
    {md[i].expiry : i \in {j \in DOMAIN md : md[j].name = symbol}}

\* lines 382-383: next((x for x in chain if x['strike_real'] == K and
\* leg in x['symbol']), None).  <<"KeyError">> when a record of strike K
\* that is reached has no 'symbol' key, <<"None">> when no record matches,
\* <<"ok", x>> for the first match.
RECURSIVE FirstLeg(_, _, _)
FirstLeg(chain, K, leg) ==
    IF chain = <<>> THEN <<"None">>
    ELSE LET x == Head(chain)
         IN  IF x.strike_real # K THEN FirstLeg(Tail(chain), K, leg)
             ELSE IF x.symbol = Missing THEN <<"KeyError">>
             ELSE IF Contains(x.symbol, LegText(leg)) THEN <<"ok", x>>
             ELSE FirstLeg(Tail(chain), K, leg)

\* line 377
ChainStrikes(chain) == Sorted({chain[i].strike_real : i \in DOMAIN chain})

\* lines 381-383: the loop over the strikes raises KeyError
RowsRaise(chain) ==
    \E K \in SeqRange(ChainStrikes(chain)) :
        \/ FirstLeg(chain, K, "CE")[1] = "KeyError"
        \/ FirstLeg(chain, K, "PE")[1] = "KeyError"

\* lines 385-386: quotes.get(leg['token'], 0) if leg else 0
LegPrice(found, quotes) ==
    IF found[1] = "ok" /\ found[2].token \in DOMAIN quotes
    THEN quotes[found[2].token] ELSE 0

LegToken(found) == IF found[1] = "ok" THEN found[2].token ELSE <<>>

\* lines 381-425: one row per strike, in ascending strike order
Rows(chain, quotes) ==
    LET strikes == ChainStrikes(chain)
    IN  [i \in DOMAIN strikes |->
            LET ce == FirstLeg(chain, strikes[i], "CE")
                pe == FirstLeg(chain, strikes[i], "PE")
            IN  [strike |-> strikes[i],
                 ce |-> LegToken(ce), pe |-> LegToken(pe),
                 ltp_c |-> LegPrice(ce, quotes), ltp_p |-> LegPrice(pe, quotes)]]

\* lines 356-357: the tokens of the chain listed on one exchange segment
SegTokens(chain, seg) ==
    LET recs == SelectSeq(chain, LAMBDA x : x.exch_seg = seg)
    IN  [i \in DOMAIN recs |-> recs[i].token]

\* the replies a cycle gets to the request for a chunk: the request fails,
\* every token is answered, only the first token is answered
CycleRepliesTo(chunk) ==
    {QuoteReply("raise", <<>>),
     QuoteReply("fetched", FetchedAll(chunk, 0)),
     QuoteReply("fetched", SubSeq(FetchedAll(chunk, 0), 1, 1))}

\* one reply per chunk
RECURSIVE ReplySeqs(_)
ReplySeqs(chunks) ==
    IF chunks = <<>> THEN {<<>>}
    ELSE {<<r>> \o rest : r \in CycleRepliesTo(Head(chunks)), rest \in ReplySeqs(Tail(chunks))}

\* the replies to the requests of get_batch_quotes(tokens)
FetchReplies(tokens) == ReplySeqs(ChunksFrom(StrTokens(tokens), 0, chunk_size))

\* the requests among them that failed
FailedIn(replies) ==
    Cardinality({k \in DOMAIN replies :
                    ~AfterReply(<<>>, replies[k]).complete})

\* dict.update
DictUpdate(d, e) == [x \in DOMAIN d \cup DOMAIN e |-> IF x \in DOMAIN e THEN e[x] ELSE d[x]]

\* lines 358-360: quotes = {} updated with the NFO and then the BFO quotes
CycleQuotes(rn, rb) == DictUpdate(DictUpdate(<<>>, QuotesFold(<<>>, rn)), QuotesFold(<<>>, rb))

(***************************************************************************)
(* The settings: the fields of AppState (lines 85-88), the text fields of  *)
(* the settings tab (lines 323-326) and save_settings (lines 447-454).     *)
(* Rates are kept in units of 1/10000: 0.10 is 1000, 5.0 is 50000.         *)
(***************************************************************************)
DefaultSettings ==
    [risk_free_rate |-> 1000, model_iv |-> 1500, alert_threshold |-> 50000]

\* lines 323-326: str(state.risk_free_rate*100), str(state.model_iv*100),
\* str(state.alert_threshold), str(state.strike_count)
InitialTexts ==
    [rfr |-> <<"1", "0", ".", "0">>, iv |-> <<"1", "5", ".", "0">>,
     alert |-> <<"5", ".", "0">>, strikes |-> <<"6">>]

\* what the user types into the four fields
TextsOf ==
    [rfr |-> {<<"1", "0", ".", "0">>, <<"7", ".", "5">>},
     iv |-> {<<"1", "5", ".", "0">>, <<"x">>},
     alert |-> {<<"5", ".", "0">>, <<"9">>},
     strikes |-> {<<"6">>, <<"0">>, <<"6", ".", "0">>}]

MaxEdited == 1

IsDigit(c) == c \in SeqRange(Digits)
DigitVal(c) == (CHOOSE i \in DOMAIN Digits : Digits[i] = c) - 1
AllDigits(s) == \A i \in DOMAIN s : IsDigit(s[i])

RECURSIVE IntOf(_)
IntOf(ds) == IF ds = <<>> THEN 0 ELSE IntOf(SubSeq(ds, 1, Len(ds) - 1)) * 10 + DigitVal(ds[Len(ds)])

\* the text after the first dot
RECURSIVE AfterDot(_)
AfterDot(s) ==
    IF s = <<>> THEN <<>> ELSE IF Head(s) = "." THEN Tail(s) ELSE AfterDot(Tail(s))

\* a fraction of up to four digits, in units of 1/10000
FracOf(ds) == IntOf(SubSeq(ds \o <<"0", "0", "0", "0">>, 1, 4))

\* float(text) for texts of digits with at most one dot: <<v>> with v in
\* units of 1/10000, <<>> when float() raises ValueError
ParseFloat(text) ==
    LET t == Strip(text)
        ip == BeforeDot(t)
        fp == AfterDot(t)
    IN  IF AllDigits(ip) /\ AllDigits(fp) /\ Len(ip) + Len(fp) > 0 /\ Len(fp) <= 4
           /\ Len(t) <= Len(ip) + Len(fp) + 1
        THEN <<IntOf(ip) * 10000 + FracOf(fp)>>
        ELSE <<>>

\* int(text): <<n>>, or <<>> when int() raises ValueError
ParseInt(text) ==
    LET t == Strip(text)
    IN  IF t # <<>> /\ AllDigits(t) THEN <<IntOf(t)>> ELSE <<>>

NoNotice == [kind |-> "none", count |-> 0]
Notice(kind, count) == [kind |-> kind, count |-> count]

\* the settings of a moment: state.strike_count and the three rates
Snapshot(count, st) ==
    [strike_count |-> count, risk_free_rate |-> st.risk_free_rate,
     model_iv |-> st.model_iv, alert_threshold |-> st.alert_threshold]

NoSnapshot == Snapshot(0, DefaultSettings)

\* what a cycle computed with: count (line 223), r_rate, m_iv, alert_th
\* (lines 370-375)
Used(count, r_rate, m_iv, alert_th) ==
    [count |-> count, r_rate |-> r_rate, m_iv |-> m_iv, alert_th |-> alert_th]

NoUsed == Used(0, 1000, 1500, 500)

\* lines 370-375, read from the text fields: float(text) / 100.0 for each,
\* and the three defaults when one of them raises
RatesRead(count, txt) ==
    LET r == ParseFloat(txt.rfr)
        v == ParseFloat(txt.iv)
        a == ParseFloat(txt.alert)
    IN  IF r = <<>> \/ v = <<>> \/ a = <<>> THEN Used(count, 1000, 1500, 500)
        ELSE Used(count, r[1] \div 100, v[1] \div 100, a[1] \div 100)

IdleThread ==
    [pc |-> "none", spot |-> 0, chain |-> <<>>, snap |-> NoSnapshot, count |-> 0]

InCycle(t) == thr[t].pc \in {"rc_enter", "rc_spot", "rc_quotes"}

\* an auto_loop thread that has been started and has not ended
Alive(t) == thr[t].pc \in {"check", "rc_enter", "rc_spot", "rc_quotes", "sleep"}

\* refresh_chain returns (or raises) in thread t: auto_loop goes on to
\* time.sleep(10), or dies with the exception; a handler thread ends
AfterReturn(t) == IF t \in Loops THEN "sleep" ELSE "none"
AfterRaise(t) == IF t \in Loops THEN "raised" ELSE "none"

\* login_click (lines 456-480) when login_angel succeeds: the headers are
\* set and load_token_master answers d; with a non-empty d the home tab is
\* shown and update_expiries selects an expiry
LoginClick ==
    /\ ~logged_in
    /\ \E d \in LoginMasters :
          /\ headers' = TRUE
          /\ IF d # <<>>
             THEN /\ master_data' = d
                  /\ logged_in' = TRUE
                  /\ exp_dd' = IF ExpiriesOf(d, idx_dd) # {}
                               THEN CHOOSE e \in ExpiriesOf(d, idx_dd) : TRUE
                               ELSE exp_dd
             ELSE UNCHANGED <<master_data, logged_in, exp_dd>>
    /\ UNCHANGED <<strike_count, idx_dd, auto_switch, auto_refresh, thr, chain_table, panelVars,
                   notSchedVars>>

\* toggle_auto with the switch turned on (lines 442-444): the flag is set
\* and a new auto_loop thread is started
ToggleAutoOn(t) ==
    /\ logged_in
    /\ ~auto_switch
    /\ t \in Loops
    /\ ~Alive(t)
    /\ \A u \in Loops : u < t => Alive(u)
    /\ auto_switch' = TRUE
    /\ auto_refresh' = TRUE
    /\ thr' = [thr EXCEPT ![t] = [IdleThread EXCEPT !.pc = "check"]]
    /\ UNCHANGED <<appVars, headers, logged_in, idx_dd, exp_dd, chain_table, panelVars,
                   notSchedVars>>

\* toggle_auto with the switch turned on before the login: the handler is
\* bound when the page is built (line 445), the switch is on the home tab,
\* which login_click shows (line 472)
ToggleAutoEarly(t) ==
    /\ ~logged_in
    /\ ~auto_switch
    /\ t \in Loops
    /\ ~Alive(t)
    /\ \A u \in Loops : u < t => Alive(u)
    /\ auto_switch' = TRUE
    /\ auto_refresh' = TRUE
    /\ thr' = [thr EXCEPT ![t] = [IdleThread EXCEPT !.pc = "check"]]
    /\ UNCHANGED <<appVars, headers, logged_in, idx_dd, exp_dd, chain_table, panelVars,
                   notSchedVars>>

\* the scheduler: the flag, the switch and the auto_loop threads
SchedState == [flag |-> auto_refresh, switch |-> auto_switch,
               loops |-> [t \in Loops |-> thr[t]]]

\* toggle_auto assigning "not state.auto_refresh" instead of the switch value
StopToggling(st) == [st EXCEPT !.flag = ~st.flag, !.switch = FALSE]

\* toggle_auto with the switch off (lines 442-445): the flag is cleared and
\* no thread is started
StopOf(st) == [st EXCEPT !.flag = FALSE, !.switch = FALSE]

\* the Auto switch is turned off, or its change event is delivered once more
\* while it is off
ToggleAutoOff ==
    /\ logged_in
    /\ LET st == StopOf(SchedState)
       IN  /\ auto_switch' = st.switch
           /\ auto_refresh' = st.flag
           /\ thr' = [t \in Threads |-> IF t \in Loops THEN st.loops[t] ELSE thr[t]]
    /\ UNCHANGED <<appVars, headers, logged_in, idx_dd, exp_dd, chain_table, panelVars,
                   notSchedVars>>

\* the same test with the flag ignored: while True
LoopCheckAlways(t) ==
    /\ t \in Loops
    /\ thr[t].pc = "check"
    /\ thr' = [thr EXCEPT ![t].pc = "rc_enter"]
    /\ UNCHANGED <<appVars, headers, logged_in, idx_dd, exp_dd, auto_switch, auto_refresh,
                   chain_table, panelVars, notSchedVars>>

\* line 438: while state.auto_refresh
LoopCheck(t) ==
    /\ t \in Loops
    /\ thr[t].pc = "check"
    /\ thr' = [thr EXCEPT ![t].pc = IF auto_refresh THEN "rc_enter" ELSE "exited"]
    /\ UNCHANGED <<appVars, headers, logged_in, idx_dd, exp_dd, auto_switch, auto_refresh,
                   chain_table, panelVars, notSchedVars>>

\* line 440: time.sleep(10) returns
LoopWake(t) ==
    /\ t \in Loops
    /\ thr[t].pc = "sleep"
    /\ thr' = [thr EXCEPT ![t].pc = "check"]
    /\ UNCHANGED <<appVars, headers, logged_in, idx_dd, exp_dd, auto_switch, auto_refresh,
                   chain_table, panelVars, notSchedVars>>

\* the refresh button (line 471): the page runs refresh_chain in a thread
RefreshClick(t) ==
    /\ logged_in
    /\ t \in Handlers
    /\ thr[t].pc = "none"
    /\ thr' = [thr EXCEPT ![t].pc = "rc_enter"]
    /\ UNCHANGED <<appVars, headers, logged_in, idx_dd, exp_dd, auto_switch, auto_refresh,
                   chain_table, panelVars, notSchedVars>>

\* the same without the test of line 336: the spot request is always sent
RcEnterAlways(t) ==
    /\ thr[t].pc = "rc_enter"
    /\ thr' = [thr EXCEPT ![t] =
                  [IdleThread EXCEPT !.pc = "rc_spot",
                                     !.snap = Snapshot(strike_count, settings)]]
    /\ UNCHANGED <<appVars, headers, logged_in, idx_dd, exp_dd, auto_switch, auto_refresh,
                   chain_table, panelVars, notSchedVars>>

\* lines 336-341: return on an empty master, else the spot request is sent.
\* snap keeps the settings as they are when the cycle starts.
RcEnter(t) ==
    /\ thr[t].pc = "rc_enter"
    /\ thr' = [thr EXCEPT ![t] =
                  IF master_data = <<>> THEN [IdleThread EXCEPT !.pc = AfterReturn(t)]
                  ELSE [IdleThread EXCEPT !.pc = "rc_spot",
                                          !.snap = Snapshot(strike_count, settings)]]
    /\ UNCHANGED <<appVars, headers, logged_in, idx_dd, exp_dd, auto_switch, auto_refresh,
                   chain_table, panelVars, notSchedVars>>

\* lines 341-360: get_spot_price answers and the spot is shown; without an
\* expiry or a chain the cycle returns, else the quote requests are sent.
\* get_chain_data reads state.strike_count now (line 223).
RcSpot(t) ==
    /\ thr[t].pc = "rc_spot"
    /\ \E spot \in SpotReplies :
          LET chain == get_chain_data(master_data, strike_count, idx_dd, exp_dd, spot)
          IN  /\ spot_display' = spot
              /\ IF exp_dd = "" \/ chain = <<>>
                 THEN thr' = [thr EXCEPT ![t] = [IdleThread EXCEPT !.pc = AfterReturn(t)]]
                 ELSE thr' = [thr EXCEPT ![t] = [pc |-> "rc_quotes", spot |-> spot,
                                                  chain |-> chain, snap |-> thr[t].snap,
                                                  count |-> strike_count]]
    /\ UNCHANGED <<appVars, headers, logged_in, idx_dd, exp_dd, auto_switch, auto_refresh,
                   chain_table, notice, set_text, settings, failed_chunks, cycle_log,
                   notSchedVars>>

\* the legs of the rows that have a price (ltp > 0)
PricedLegs(rows) ==
    {<<i, "CE">> : i \in {j \in DOMAIN rows : rows[j].ltp_c > 0}}
    \cup {<<i, "PE">> : i \in {j \in DOMAIN rows : rows[j].ltp_p > 0}}

\* lines 430-433: the message for n opportunities
OpportunityNotice(n, old) ==
    IF n = 0 THEN old
    ELSE IF ~auto_refresh THEN Notice("alert", n)
    ELSE Notice("snack", n)

\* lines 359-435: the quotes arrive, the rates are read from the text fields
\* (lines 370-375), the rows are built and shown; a KeyError of the row loop
\* leaves refresh_chain as it is raised.  Which priced legs are flagged
\* (fair value above the price by the threshold, lines 399 and 404) depends
\* on the time left to the expiry: any set of them may be.
RcRows(t) ==
    /\ thr[t].pc = "rc_quotes"
    /\ \E rn \in FetchReplies(SegTokens(thr[t].chain, NFO)),
          rb \in FetchReplies(SegTokens(thr[t].chain, BFO)) :
          IF RowsRaise(thr[t].chain)
          THEN /\ thr' = [thr EXCEPT ![t] = [IdleThread EXCEPT !.pc = AfterRaise(t)]]
               /\ UNCHANGED <<chain_table, notice, failed_chunks, cycle_log>>
          ELSE LET rows == Rows(thr[t].chain, CycleQuotes(rn, rb))
               IN  /\ thr' = [thr EXCEPT ![t] = [IdleThread EXCEPT !.pc = AfterReturn(t)]]
                   /\ chain_table' = rows
                   /\ failed_chunks' = FailedIn(rn) + FailedIn(rb)
                   /\ cycle_log' = [snap |-> thr[t].snap,
                                    used |-> RatesRead(thr[t].count, set_text)]
                   /\ \E n \in 0 .. Cardinality(PricedLegs(rows)) :
                         notice' = OpportunityNotice(n, notice)
    /\ UNCHANGED <<appVars, headers, logged_in, idx_dd, exp_dd, auto_switch, auto_refresh,
                   spot_display, set_text, settings, notSchedVars>>

\* the user edits one of the four text fields of the settings tab; at most
\* MaxEdited fields differ from their first texts at a time
Edited(txt) == {f \in DOMAIN TextsOf : txt[f] # InitialTexts[f]}

TypeSetting ==
    /\ logged_in
    /\ \E f \in DOMAIN TextsOf : \E txt \in TextsOf[f] :
          /\ txt # set_text[f]
          /\ Cardinality(Edited([set_text EXCEPT ![f] = txt])) <= MaxEdited
          /\ set_text' = [set_text EXCEPT ![f] = txt]
    /\ UNCHANGED <<appVars, headers, logged_in, idx_dd, exp_dd, auto_switch, auto_refresh,
                   thr, chain_table, spot_display, notice, settings, failed_chunks, cycle_log,
                   notSchedVars>>

\* save_settings (lines 447-454): the four assignments in their order; the
\* first text that does not parse ends them with "Invalid Settings"
SaveSettings ==
    /\ logged_in
    /\ LET r == ParseFloat(set_text.rfr)
           v == ParseFloat(set_text.iv)
           a == ParseFloat(set_text.alert)
           n == ParseInt(set_text.strikes)
           s1 == IF r = <<>> THEN settings
                 ELSE [settings EXCEPT !.risk_free_rate = r[1] \div 100]
           s2 == IF r = <<>> \/ v = <<>> THEN s1
                 ELSE [s1 EXCEPT !.model_iv = v[1] \div 100]
           s3 == IF r = <<>> \/ v = <<>> \/ a = <<>> THEN s2
                 ELSE [s2 EXCEPT !.alert_threshold = a[1]]
           all == r # <<>> /\ v # <<>> /\ a # <<>> /\ n # <<>>
       IN  /\ settings' = s3
           /\ strike_count' = IF all THEN n[1] ELSE strike_count
           /\ notice' = IF all THEN Notice("saved", 0) ELSE Notice("invalid", 0)
    /\ UNCHANGED <<master_data, headers, logged_in, idx_dd, exp_dd, auto_switch, auto_refresh,
                   thr, chain_table, spot_display, set_text, failed_chunks, cycle_log,
                   notSchedVars>>

\* a step of the auto_loop thread t
LoopStep(t) == LoopCheck(t) \/ LoopWake(t) \/ RcEnter(t) \/ RcSpot(t) \/ RcRows(t)

(***************************************************************************)
(* get_expiries (src/main.py:178-192)                                      *)
(* An expiry is a text, a sequence of characters such as 26NOV2026; a date *)
(* is the number year * 10000 + month * 100 + day.                         *)
(***************************************************************************)
MonthNames ==
    <<<<"J", "A", "N">>, <<"F", "E", "B">>, <<"M", "A", "R">>, <<"A", "P", "R">>,
      <<"M", "A", "Y">>, <<"J", "U", "N">>, <<"J", "U", "L">>, <<"A", "U", "G">>,
      <<"S", "E", "P">>, <<"O", "C", "T">>, <<"N", "O", "V">>, <<"D", "E", "C">>>>

IsLeap(y) == (y % 4 = 0 /\ y % 100 # 0) \/ y % 400 = 0

DaysIn(m, y) ==
    IF m = 2 THEN (IF IsLeap(y) THEN 29 ELSE 28)
    ELSE IF m \in {4, 6, 9, 11} THEN 30 ELSE 31

\* datetime.strptime(text, "%d%b%Y") for texts of one or two day digits, a
\* month name in capitals and four year digits: <<date>>, or <<>> when it
\* raises (ValueError; TypeError for None, the value of an absent key)
Strptime(text) ==
    IF text = Missing \/ Len(text) \notin {8, 9} THEN <<>>
    ELSE LET dl == Len(text) - 7
             dd == SubSeq(text, 1, dl)
             mon == SubSeq(text, dl + 1, dl + 3)
             yy == SubSeq(text, dl + 4, dl + 7)
         IN  IF ~AllDigits(dd) \/ ~AllDigits(yy) \/ mon \notin SeqRange(MonthNames)
             THEN <<>>
             ELSE LET m == CHOOSE i \in DOMAIN MonthNames : MonthNames[i] = mon
                  IN  IF IntOf(dd) \in 1 .. DaysIn(m, IntOf(yy))
                      THEN <<IntOf(yy) * 10000 + m * 100 + IntOf(dd)>>
                      ELSE <<>>

\* lines 180-182: the set of the expiries of the symbol's records
ExpirySet(md, symbol) ==
    {md[i].expiry : i \in {j \in DOMAIN md : md[j].name = symbol}}

\* a stable sort by date of a list whose texts all parse
RECURSIVE InsertByDate(_, _)
InsertByDate(sorted, e) ==
    IF sorted = <<>> THEN <<e>>
    ELSE IF Strptime(e)[1] < Strptime(Head(sorted))[1] THEN <<e>> \o sorted
    ELSE <<Head(sorted)>> \o InsertByDate(Tail(sorted), e)

RECURSIVE SortByDate(_)
SortByDate(list) ==
    IF list = <<>> THEN <<>>
    ELSE InsertByDate(SortByDate(SubSeq(list, 1, Len(list) - 1)), list[Len(list)])

\* lines 184-185: list.sort(key=strptime) computes every key before it moves
\* anything; when one of them raises, the list is left as it was
SortAttempt(list) ==
    IF \A i \in DOMAIN list : Strptime(list[i]) # <<>> THEN SortByDate(list) ELSE list

\* lines 187-191
ValidFrom(list, today) ==
    SelectSeq(list, LAMBDA e : Strptime(e) # <<>> /\ Strptime(e)[1] >= today)

\* line 192: valid[:6] if valid else exps_list[-5:]
ExpiriesReturned(list, today) ==
    IF ValidFrom(list, today) # <<>> THEN PySlice(ValidFrom(list, today), 0, 6)
    ELSE PySlice(list, -5, Len(list))

\* line 183: list(exps) lists a set in the order of its hash table, which
\* differs from run to run: any order.  Sets of more than MaxPermuted texts
\* are taken in one order only.
MaxPermuted == 4

RECURSIVE AnyOrder(_)
AnyOrder(S) ==
    IF S = {} THEN <<>>
    ELSE LET e == CHOOSE x \in S : TRUE IN <<e>> \o AnyOrder(S \ {e})

ListsOf(S) ==
    IF Cardinality(S) > MaxPermuted THEN {AnyOrder(S)}
    ELSE {l \in [1 .. Cardinality(S) -> S] : SeqRange(l) = S}

Text2(a, b, mon, y) == <<a, b>> \o mon \o y
Y2026 == <<"2", "0", "2", "6">>
Y2027 == <<"2", "0", "2", "7">>

\* expiries before and after 1 November 2026, and a text strptime rejects
Oct29 == Text2("2", "9", MonthNames[10], Y2026)
Nov26 == Text2("2", "6", MonthNames[11], Y2026)
Dec31 == Text2("3", "1", MonthNames[12], Y2026)
Feb30 == Text2("3", "0", MonthNames[2], Y2027)
LaterExpiries ==
    {Text2("2", "8", MonthNames[1], Y2027), Text2("2", "5", MonthNames[2], Y2027),
     Text2("2", "5", MonthNames[3], Y2027), Text2("2", "9", MonthNames[4], Y2027),
     Text2("2", "7", MonthNames[5], Y2027)}

ExpirySets ==
    (SUBSET {Oct29, Nov26, Dec31, Feb30})
    \cup {{Nov26, Dec31} \cup LaterExpiries, {Oct29, Nov26, Dec31} \cup LaterExpiries}

TodayValues == {20261101, 20261126, 20270101, 20280101}

\* a master with one CE record per expiry of the set, and a record of
\* another index
ExpiryMaster(S) ==
    [i \in 1 .. Cardinality(S) |->
        Instr("NIFTY", AnyOrder(S)[i], 24000, <<"CE">>, <<"4", "1">>, NFO)]
    \o <<Instr("SENSEX", Nov26, 81000, <<"CE">>, <<"8", "1">>, BFO)>>

\* the call: lines 179-192
GetExpiries ==
    /\ ex_pc = "ready"
    /\ ex_pc' = "done"
    /\ IF master_data = <<>>
       THEN ex_list' = <<>> /\ ex_out' = <<>>
       ELSE \E list \in ListsOf(ExpirySet(master_data, ex_symbol)) :
               /\ ex_list' = SortAttempt(list)
               /\ ex_out' = ExpiriesReturned(SortAttempt(list), ex_today)
    /\ UNCHANGED <<ex_symbol, ex_today, notExpVars>>

(***************************************************************************)
(* The rows of a chain (src/main.py:377-386), on the chain get_chain_data  *)
(* returned                                                                *)
(***************************************************************************)
\* a record with the symbol text sym and the token tok
Listed(k, sym, tok) == Instr("NIFTY", "28NOV2026", k, sym, <<k, tok>>, <<"N", "F", "O">>)

\* a put whose symbol holds the letters CE before its end
PutOfNice(k, tok) ==
    Listed(k, <<"N", "I", "C", "E">> \o LegText("PE"), tok)

\* The masters the rows are built from.  Strikes with both legs in either
\* file order, with one leg, with a leg listed twice; a master in descending
\* strike order; and masters with a symbol that holds "CE" before its end.
RowMasters ==
    {MasterOf(<<23900, 24000, 24100>>, 2, "28NOV2026"),
     Reverse(MasterOf(<<23900, 24000, 24100>>, 2, "28NOV2026")),
     MasterOf(<<23900, 24000>>, 1, "28NOV2026"),
     <<Listed(24000, SymbolText("NIFTY", "PE"), 2),
       Listed(23900, SymbolText("NIFTY", "PE"), 2),
       Listed(23900, SymbolText("NIFTY", "CE"), 1),
       Listed(24100, SymbolText("NIFTY", "CE"), 1),
       Listed(24100, SymbolText("NIFTY", "CE"), 3)>>,
     <<Listed(23900, SymbolText("NIFTY", "CE"), 1), PutOfNice(24000, 2)>>,
     <<PutOfNice(24000, 2), Listed(24000, SymbolText("NIFTY", "CE"), 1)>>}

RowSpots == {0, 23850, 24000, 24150}
RowCounts == {0, 1, 2}

\* the quotes of a cycle: none, or a price for every token of the chain
RowQuotes(chain) == {<<>>, [tok \in {chain[i].token : i \in DOMAIN chain} |-> 120]}

\* lines 377-386 for the chain returned
BuildRows ==
    /\ sel_pc = "done"
    /\ rows_pc = "ready"
    /\ chain_out # <<>>
    /\ \E quotes \in RowQuotes(chain_out) :
          /\ rows_quotes' = quotes
          /\ IF RowsRaise(chain_out)
             THEN rows_pc' = "raised" /\ rows_out' = <<>>
             ELSE rows_pc' = "done" /\ rows_out' = Rows(chain_out, quotes)
    /\ UNCHANGED notRowVars

(***************************************************************************)
(* The math engine (src/main.py:33-74)                                     *)
(* A float is kept as a whole number of 1/10000: 1.0 is ONE, 0.01 is 100.  *)
(* Products and quotients are rounded to the nearest 1/10000.  exp, log    *)
(* and erf are computed from their series (erf from the rational           *)
(* approximation 7.1.26 of Abramowitz and Stegun); arguments beyond 4.5,   *)
(* where the normal density and distribution are 0 and 1 at this           *)
(* resolution, are cut to 4.5.                                             *)
(***************************************************************************)
ONE == 10000

Clamp(x, m) == Max(0 - m, Min(m, x))

\* n / d rounded to the nearest integer, for d > 0
RDiv(n, d) == IF n >= 0 THEN (n + d \div 2) \div d ELSE 0 - ((0 - n + d \div 2) \div d)

FxMul(a, b) == RDiv(a * b, ONE)
FxDiv(a, b) == IF b > 0 THEN RDiv(a * ONE, b) ELSE 0 - RDiv(a * ONE, 0 - b)

RECURSIVE ISqrtFrom(_, _)
ISqrtFrom(n, s) ==
    LET t == (s + n \div s) \div 2 IN IF t >= s THEN s ELSE ISqrtFrom(n, t)

\* math.sqrt
FxSqrt(x) == IF x = 0 THEN 0 ELSE ISqrtFrom(x * ONE, x * ONE)

\* the terms x^n / n! of exp(x) from n on
RECURSIVE ExpSeries(_, _, _, _)
ExpSeries(x, n, term, acc) ==
    IF n > 8 THEN acc
    ELSE LET t == RDiv(FxMul(term, x), n) IN ExpSeries(x, n + 1, t, acc + t)

\* exp(x) = exp(x/2)^2 down to |x| <= 1/2
RECURSIVE ExpReduced(_)
ExpReduced(x) ==
    IF Abs(x) <= ONE \div 2 THEN ONE + ExpSeries(x, 1, ONE, 0)
    ELSE LET h == ExpReduced(RDiv(x, 2)) IN FxMul(h, h)

\* math.exp
FxExp(x) == IF x < 0 - 12 * ONE THEN 0 ELSE ExpReduced(x)

\* the terms z^n / n of atanh(z) from n on (n odd)
RECURSIVE LnSeries(_, _, _, _)
LnSeries(z2, n, term, acc) ==
    IF n > 15 THEN acc
    ELSE LET t == FxMul(term, z2) IN LnSeries(z2, n + 2, t, acc + RDiv(t, n))

\* math.log(x) = 2 atanh((x - 1) / (x + 1)), for x > 0
FxLn(x) ==
    LET z == FxDiv(x - ONE, x + ONE)
    IN  2 * (z + LnSeries(FxMul(z, z), 3, z, 0))

\* math.erf(y) for y >= 0
ErfPos(y) ==
    IF y >= 4 * ONE THEN ONE
    ELSE LET t == FxDiv(ONE, ONE + FxMul(3276, y))
             p5 == FxMul(10614, t)
             p4 == FxMul(p5 - 14532, t)
             p3 == FxMul(p4 + 14214, t)
             p2 == FxMul(p3 - 2845, t)
             p1 == FxMul(p2 + 2549, t)
         IN  ONE - FxMul(p1, FxExp(0 - FxMul(y, y)))

FxErf(y) == IF y >= 0 THEN ErfPos(y) ELSE 0 - ErfPos(0 - y)

SQRT_2 == 14142
INV_SQRT_2PI == 3989

\* lines 36-37
norm_pdf(x) ==
    LET xc == Clamp(x, 45000)
    IN  FxMul(INV_SQRT_2PI, FxExp(0 - RDiv(FxMul(xc, xc), 2)))

\* lines 39-40
norm_cdf(x) == RDiv(ONE + FxErf(FxDiv(Clamp(x, 45000), SQRT_2)), 2)

\* lines 42-46: <<>> for (None, None), else <<d1, d2>>
d1_d2(S, K, T, r, sigma) ==
    IF T <= 0 \/ S <= 0 \/ K <= 0 \/ sigma <= 0 THEN <<>>
    ELSE LET den == FxMul(sigma, FxSqrt(T))
             d1 == FxDiv(FxLn(FxDiv(S, K)) + FxMul(r + RDiv(FxMul(sigma, sigma), 2), T),
                         den)
         IN  <<d1, d1 - den>>

\* line 49 without max(0.0, ...)
IntrinsicSigned(S, K, option_type) == IF option_type = "CE" THEN S - K ELSE K - S

\* line 49: max(0.0, S - K) if option_type == "CE" else max(0.0, K - S)
Intrinsic(S, K, option_type) ==
    IF option_type = "CE" THEN Max(0, S - K) ELSE Max(0, K - S)

\* lines 48-55
black_scholes_price(S, K, T, r, sigma, option_type) ==
    IF T <= 0 THEN Intrinsic(S, K, option_type)
    ELSE LET d == d1_d2(S, K, T, r, sigma)
         IN  IF d = <<>> THEN 0
             ELSE LET disc == FxMul(K, FxExp(0 - FxMul(r, T)))
                  IN  IF option_type = "CE"
                      THEN FxMul(S, norm_cdf(d[1])) - FxMul(disc, norm_cdf(d[2]))
                      ELSE FxMul(disc, norm_cdf(0 - d[2])) - FxMul(S, norm_cdf(0 - d[1]))

IV_SEED == 5000
IV_ROUNDS == 5
IV_TOLERANCE == 100
IV_FLOOR == 100

\* line 72: abs(vega) < 0.00001
VegaTooSmall(vega) == Abs(vega) * 100000 < ONE

\* The arguments of the calls.  op is the function called; sigma is read by
\* black_scholes_price only and price by calculate_implied_volatility only.
PriceCall(op, S, K, T, r, sigma, price, option_type) ==
    [op |-> op, S |-> S, K |-> K, T |-> T, r |-> r, sigma |-> sigma,
     price |-> price, option_type |-> option_type]

OptionTypes == {"CE", "PE"}

\* black_scholes_price: zero and negative arguments included
PriceCalls ==
    {PriceCall("price", S, K, T, r, sigma, 0, ty) :
        S \in {0 - 10000, 0, 10000}, K \in {0, 9000, 10000, 11000},
        T \in {0 - 2500, 0, 2500, 10000}, r \in {0, 1000},
        sigma \in {0 - 2000, 0, 2000, 5000}, ty \in OptionTypes}

\* calculate_implied_volatility: prices from 0.004 to 0.3 of an option on a
\* spot of 1.0, and two options far from the money
IvCalls ==
    {PriceCall("iv", S, K, T, r, 0, price, ty) :
        S \in {0, 10000}, K \in {9000, 10000, 11000}, T \in {0, 2500, 10000},
        r \in {0, 1000}, price \in {40, 60, 300, 500, 1000, 2000, 3000},
        ty \in OptionTypes}
    \cup {PriceCall("iv", 10000, 20000, 2500, 0, 0, 220, "CE"),
          PriceCall("iv", 10000, 5000, 5000, 1000, 0, 620, "PE")}

NoCall == PriceCall("none", 0, 0, 0, 0, 0, 0, "CE")

\* a call of black_scholes_price (lines 48-55)
CallBlackScholes ==
    /\ pr_pc = "ready"
    /\ pr_in.op = "price"
    /\ pr_out' = black_scholes_price(pr_in.S, pr_in.K, pr_in.T, pr_in.r, pr_in.sigma,
                                     pr_in.option_type)
    /\ pr_pc' = "done"
    /\ UNCHANGED <<pr_in, iv_v, iv_i, iv_exit, notPriceVars>>

\* line 64: v = 0.5
IvCall ==
    /\ pr_pc = "ready"
    /\ pr_in.op = "iv"
    /\ pr_pc' = "loop"
    /\ iv_v' = IV_SEED
    /\ iv_i' = 0
    /\ UNCHANGED <<pr_in, pr_out, iv_exit, notPriceVars>>

\* the end of the call with value out, the loop left by way
IvLeave(way, out) ==
    /\ pr_pc' = "done"
    /\ pr_out' = out
    /\ iv_exit' = way
    /\ UNCHANGED <<iv_v, iv_i>>

\* lines 65-73: one turn of the loop
IvTurn ==
    /\ pr_pc = "loop"
    /\ iv_i < IV_ROUNDS
    /\ LET p == black_scholes_price(pr_in.S, pr_in.K, pr_in.T, pr_in.r, iv_v,
                                    pr_in.option_type)
           d == d1_d2(pr_in.S, pr_in.K, pr_in.T, pr_in.r, iv_v)
       IN  IF d = <<>> THEN IvLeave("d1", Max(IV_FLOOR, iv_v))
           ELSE LET vega == FxMul(FxMul(pr_in.S, FxSqrt(pr_in.T)), norm_pdf(d[1]))
                    diff == pr_in.price - p
                IN  IF Abs(diff) < IV_TOLERANCE THEN IvLeave("tolerance", iv_v)
                    ELSE IF VegaTooSmall(vega) THEN IvLeave("vega", Max(IV_FLOOR, iv_v))
                    ELSE /\ iv_v' = iv_v + FxDiv(diff, vega)
                         /\ iv_i' = iv_i + 1
                         /\ UNCHANGED <<pr_pc, pr_out, iv_exit>>
    /\ UNCHANGED <<pr_in, notPriceVars>>

\* line 74 after range(5) is used up
IvRoundsUsed ==
    /\ pr_pc = "loop"
    /\ iv_i = IV_ROUNDS
    /\ IvLeave("rounds", Max(IV_FLOOR, iv_v))
    /\ UNCHANGED <<pr_in, notPriceVars>>

(***************************************************************************)
(* The specifications                                                      *)
(***************************************************************************)
SelIdle ==
    /\ sel_symbol = "NIFTY"
    /\ sel_expiry = ""
    /\ sel_spot = 0
    /\ sel_pc = "idle"
    /\ chain_out = <<>>
    /\ atm_out = -1

CacheIdle ==
    /\ file = NoFile
    /\ call = [t \in Callers |-> IdleCall]
    /\ last_fresh = <<>>

QuoteIdle ==
    /\ q_pc = "idle"
    /\ q_tokens = <<>>
    /\ q_i = 0
    /\ q_sent = <<>>
    /\ q_results = <<>>
    /\ q_failed = 0
    /\ q_returned = {}
    /\ q_fetched = <<>>

ExpIdle ==
    /\ ex_pc = "idle"
    /\ ex_symbol = "NIFTY"
    /\ ex_today = 20261101
    /\ ex_list = <<>>
    /\ ex_out = <<>>

RowsIdle ==
    /\ rows_pc = "idle"
    /\ rows_quotes = <<>>
    /\ rows_out = <<>>

PriceIdle ==
    /\ pr_pc = "idle"
    /\ pr_in = NoCall
    /\ pr_out = 0
    /\ iv_v = 0
    /\ iv_i = 0
    /\ iv_exit = ""

\* the state main() builds (lines 77-88, 270-280)
SchedIdle ==
    /\ headers = FALSE
    /\ logged_in = FALSE
    /\ idx_dd = "NIFTY"
    /\ exp_dd = ""
    /\ auto_switch = FALSE
    /\ auto_refresh = FALSE
    /\ thr = [t \in Threads |-> IdleThread]
    /\ chain_table = <<>>
    /\ spot_display = 0
    /\ notice = NoNotice
    /\ set_text = InitialTexts
    /\ settings = DefaultSettings
    /\ failed_chunks = 0
    /\ cycle_log = [snap |-> NoSnapshot, used |-> NoUsed]

\* ---- SpecSel: get_chain_data on bounded inputs
InitSel ==
    /\ master_data \in SelMasters
    /\ strike_count \in RadiusValues
    /\ sel_symbol = "NIFTY"
    /\ sel_expiry \in ExpiryValues
    /\ sel_spot \in SpotValues
    /\ sel_pc = "ready"
    /\ chain_out = <<>>
    /\ atm_out = -1
    /\ CacheIdle
    /\ SchedIdle
    /\ RowsIdle
    /\ QuoteIdle
    /\ ExpIdle
    /\ PriceIdle

NextSel == CallGetChainData

SpecSel == InitSel /\ [][NextSel]_vars

\* ---- SpecCache: the app is started with no cache file; login clicks call
\* load_token_master, each in a thread of its own
InitCache ==
    /\ master_data = <<>>
    /\ strike_count = 6
    /\ SelIdle
    /\ CacheIdle
    /\ SchedIdle
    /\ RowsIdle
    /\ QuoteIdle
    /\ ExpIdle
    /\ PriceIdle

NextCache ==
    \/ \E t \in Callers : LtmStep(t)
    \/ Kill
    \/ Tick

SpecCache == InitCache /\ [][NextCache]_vars

\* ---- SpecCacheSeq: the same with one call at a time (a single caller)
NextCacheSeq ==
    \/ LtmStep(1)
    \/ Kill
    \/ Tick

SpecCacheSeq == InitCache /\ [][NextCacheSeq]_vars

\* ---- Spec: the app from its start
Init ==
    /\ master_data = <<>>
    /\ strike_count = 6
    /\ SelIdle
    /\ CacheIdle
    /\ SchedIdle
    /\ RowsIdle
    /\ QuoteIdle
    /\ ExpIdle
    /\ PriceIdle

Next ==
    \/ LoginClick
    \/ \E t \in Loops : ToggleAutoOn(t)
    \/ ToggleAutoOff
    \/ \E t \in Handlers : RefreshClick(t)
    \/ \E t \in Loops : LoopCheck(t) \/ LoopWake(t)
    \/ \E t \in Threads : RcEnter(t) \/ RcSpot(t) \/ RcRows(t)

Spec == Init /\ [][Next]_vars

\* ---- SpecEarly: the same with the Auto switch in reach before the login
NextEarly == Next \/ \E t \in Loops : ToggleAutoEarly(t)

SpecEarly == Init /\ [][NextEarly]_vars

\* ---- SpecSettings: the refresh button with the settings tab in use
NextSettings ==
    \/ LoginClick
    \/ \E t \in Handlers : RefreshClick(t)
    \/ \E t \in Handlers : RcEnter(t) \/ RcSpot(t) \/ RcRows(t)
    \/ TypeSetting
    \/ SaveSettings

SpecSettings == Init /\ [][NextSettings]_vars

\* ---- SpecFair: every started thread keeps running: the scheduler of the
\* operating system lets it take its next step, time.sleep(10) returns and
\* every request ends (timeout=5, timeout=3)
\* a started thread that has not ended has a step to take
LoopStepEnabled == \A t \in Threads : Alive(t) <=> ENABLED <<LoopStep(t)>>_vars

\* weak fairness of LoopStep(t), WF_vars(LoopStep(t)), with the enabling
\* condition of LoopStep(t) written as Alive(t), which it equals in every
\* reachable state (LoopStepEnabled)
KeepsRunning(t) == []<>(~Alive(t)) \/ []<><<LoopStep(t)>>_vars

SpecFair == Spec /\ \A t \in Threads : KeepsRunning(t)

\* ---- SpecQuote: get_batch_quotes on bounded token lists
InitQuote ==
    /\ master_data = <<>>
    /\ strike_count = 6
    /\ SelIdle
    /\ CacheIdle
    /\ SchedIdle
    /\ RowsIdle
    /\ ExpIdle
    /\ PriceIdle
    /\ q_pc = "ready"
    /\ q_tokens \in {TokenList(n) : n \in 0 .. MaxTokens}
    /\ q_i = 0
    /\ q_sent = <<>>
    /\ q_results = <<>>
    /\ q_failed = 0
    /\ q_returned = {}
    /\ q_fetched = <<>>

NextQuote == GbqCall \/ GbqChunk \/ GbqReturn

SpecQuote == InitQuote /\ [][NextQuote]_vars

\* ---- SpecExp: get_expiries on bounded masters and dates
InitExp ==
    /\ master_data \in {<<>>} \cup {ExpiryMaster(S) : S \in ExpirySets}
    /\ strike_count = 6
    /\ SelIdle
    /\ CacheIdle
    /\ SchedIdle
    /\ RowsIdle
    /\ QuoteIdle
    /\ PriceIdle
    /\ ex_pc = "ready"
    /\ ex_symbol = "NIFTY"
    /\ ex_today \in TodayValues
    /\ ex_list = <<>>
    /\ ex_out = <<>>

NextExp == GetExpiries

SpecExp == InitExp /\ [][NextExp]_vars

\* ---- SpecRows: get_chain_data and the row loop on bounded masters
InitRows ==
    /\ master_data \in RowMasters
    /\ strike_count \in RowCounts
    /\ sel_symbol = "NIFTY"
    /\ sel_expiry = "28NOV2026"
    /\ sel_spot \in RowSpots
    /\ sel_pc = "ready"
    /\ chain_out = <<>>
    /\ atm_out = -1
    /\ CacheIdle
    /\ SchedIdle
    /\ QuoteIdle
    /\ ExpIdle
    /\ PriceIdle
    /\ rows_pc = "ready"
    /\ rows_quotes = <<>>
    /\ rows_out = <<>>

NextRows == CallGetChainData \/ BuildRows

SpecRows == InitRows /\ [][NextRows]_vars

\* ---- SpecPrice: the pricing functions on bounded arguments
InitPrice ==
    /\ master_data = <<>>
    /\ strike_count = 6
    /\ SelIdle
    /\ CacheIdle
    /\ SchedIdle
    /\ RowsIdle
    /\ QuoteIdle
    /\ ExpIdle
    /\ pr_pc = "ready"
    /\ pr_in \in PriceCalls \cup IvCalls
    /\ pr_out = 0
    /\ iv_v = 0
    /\ iv_i = 0
    /\ iv_exit = ""

NextPrice == CallBlackScholes \/ IvCall \/ IvTurn \/ IvRoundsUsed

SpecPrice == InitPrice /\ [][NextPrice]_vars

(***************************************************************************)
(* Claims about get_chain_data (checked under SpecSel).  The definitions   *)
(* below state the window from the inputs alone, without the operators of  *)
(* the model above.                                                        *)
(***************************************************************************)
\* the strikes listed for (sel_symbol, sel_expiry)
ListedStrikes ==
    {master_data[i].strike_real : i \in
        {j \in DOMAIN master_data : /\ master_data[j].name = sel_symbol
                                    /\ master_data[j].expiry = sel_expiry}}

\* 0-based position of strike s among the sorted distinct strikes
Rank(s) == Cardinality({u \in ListedStrikes : u < s})

IsClosest(s) == \A u \in ListedStrikes : Abs(s - sel_spot) <= Abs(u - sel_spot)

\* the closest strike, the lower one when two are equally close
AtmStrike ==
    CHOOSE s \in ListedStrikes :
        IsClosest(s) /\ \A u \in ListedStrikes : IsClosest(u) => s <= u

WindowStrikes == {chain_out[i].strike_real : i \in DOMAIN chain_out}

\* the window of radius r around the ATM strike, clamped to the listed strikes
ExpectedWindow(r) ==
    LET a == Rank(AtmStrike)
        n == Cardinality(ListedStrikes)
    IN  {s \in ListedStrikes : Max(0, a - r) <= Rank(s) /\ Rank(s) <= Min(n - 1, a + r)}

WindowAsClaimed ==
    /\ WindowStrikes = ExpectedWindow(strike_count)
    /\ AtmStrike \in WindowStrikes
    /\ Cardinality(WindowStrikes) <= 2 * strike_count + 1
    \* contiguous: no listed strike between two window strikes is left out
    /\ \A s, t \in WindowStrikes : \A u \in ListedStrikes :
           (s < u /\ u < t) => u \in WindowStrikes
    \* ascending order
    /\ \A i, j \in DOMAIN chain_out :
           i < j => chain_out[i].strike_real <= chain_out[j].strike_real
    \* every record returned is a listed record of (symbol, expiry)
    /\ \A i \in DOMAIN chain_out :
           /\ chain_out[i].name = sel_symbol
           /\ chain_out[i].expiry = sel_expiry

\* C9 as stated: for a non-empty set of instruments matching (underlying,
\* expiry) and radius >= 0, the result is exactly the sorted distinct strikes
\* at indices max(0, atm-radius) .. min(n-1, atm+radius); it contains the ATM
\* strike, is contiguous and has at most 2*radius+1 strikes.
C9_WindowForAnySpot ==
    (sel_pc = "done" /\ ListedStrikes # {} /\ strike_count >= 0) => WindowAsClaimed

\* C9 amended: the same, for a non-zero spot and a selected (non-empty)
\* expiry; with spot = 0 or no expiry get_chain_data returns the empty list.
C9_WindowForNonZeroSpot ==
    (/\ sel_pc = "done"
     /\ ListedStrikes # {}
     /\ strike_count >= 0
     /\ sel_spot # 0
     /\ sel_expiry # "") => WindowAsClaimed

\* C9 witness: the scenario of the specification, strikes 23800..24200 step
\* 100, spot 24000, radius 1: the window is 23900, 24000, 24100 (both legs)
C9_Witness ==
    /\ sel_pc = "done"
    /\ ListedStrikes = StrikeUniverse
    /\ sel_spot = 24000
    /\ strike_count = 1
    /\ WindowStrikes = {23900, 24000, 24100}
    /\ Len(chain_out) = 6

\* C10: the ATM index chosen is the index of a strike with minimum absolute
\* distance to spot, and of the lower strike when two strikes are equally
\* distant from spot.
C10_AtmIsClosestLowerOnTie ==
    (sel_pc = "done" /\ atm_out # -1) =>
        /\ atm_out \in 0 .. (Cardinality(ListedStrikes) - 1)
        /\ LET s == CHOOSE u \in ListedStrikes : Rank(u) = atm_out
           IN  /\ IsClosest(s)
               /\ \A u \in ListedStrikes :
                      Abs(u - sel_spot) = Abs(s - sel_spot) => s <= u

\* C10 witness: spot 23850 lies midway between the listed strikes 23800 and
\* 23900, a lower strike 23800 is not the first in the list order, and the
\* index chosen is that of 23800
C10_Witness ==
    /\ sel_pc = "done"
    /\ sel_spot = 23850
    /\ {23800, 23900} \subseteq ListedStrikes
    /\ master_data[1].strike_real > 23900
    /\ atm_out = Rank(23800)

(***************************************************************************)
(* Claims about load_token_master                                          *)
(***************************************************************************)
\* the call of t was cut short while it was writing the new snapshot: the
\* process was killed, or a write raised
WriteInterrupted(t) ==
    /\ call[t].pc = "writing"
    /\ \/ call'[t].pc = "idle"
       \/ call'[t].pc = "done" /\ call'[t].outcome = "error"

\* C5: replacing the persisted snapshot is atomic: when a refresh is
\* interrupted or fails while it writes the new snapshot, the file still
\* holds the complete prior valid snapshot.
C5_InterruptedWriteKeepsPrior ==
    [][\A t \in Callers :
          (WriteInterrupted(t) /\ Parsable(call[t].prior)) =>
              file'.chunks = call[t].prior]_vars

\* C6: load and refresh are mutually exclusive: no call reads the file while
\* another is between its open for writing and its close, and no two calls
\* are writing at once.
C6_LoadRefreshExclusive ==
    \A t, u \in Callers :
        (t # u /\ call[t].pc = "writing") => call[u].pc \notin {"reading", "writing"}

\* a step of call t that leaves position p other than by a kill
Leaves(t, p) == call[t].pc = p /\ call'[t].pc \notin {p, "idle"}

\* C7: a load returns the persisted snapshot only if its age is strictly
\* less than 12 hours; a file aged 12 hours or more, a missing file or an
\* unreadable file is never a hit and always leads to the download.
C7_HitOnlyIfYoungerThan12h ==
    [][\A t \in Callers :
          \* the age check: the file is opened for reading iff it exists and
          \* is younger than 12 hours, otherwise the download is next
          /\ Leaves(t, "stat") =>
                IF file.exists /\ file.age < 12
                THEN call'[t].pc = "open_r"
                ELSE call'[t].pc = "download"
          \* the file is opened for reading only after that check
          /\ (call'[t].pc = "open_r" /\ call[t].pc # "open_r") => call[t].pc = "stat"
          /\ (call'[t].pc = "reading" /\ call[t].pc # "reading") => call[t].pc = "open_r"
          \* an unreadable file is not a hit and leads to the download; a
          \* readable one is returned
          /\ Leaves(t, "reading") =>
                IF Parsable(file.chunks)
                THEN /\ call'[t].pc = "done"
                     /\ call'[t].outcome = "hit"
                     /\ call'[t].result = JsonLoad(file.chunks)
                ELSE call'[t].pc = "download"
          \* a hit is returned by the read only
          /\ (call'[t].outcome = "hit" /\ call[t].outcome # "hit") =>
                call[t].pc = "reading"
          \* the download is attempted: it fails, or the write follows
          /\ Leaves(t, "download") =>
                \/ call'[t].pc = "open_w"
                \/ call'[t].pc = "done" /\ call'[t].outcome = "error"]_vars

\* C7 witness: a complete snapshot aged exactly 12 hours was not returned:
\* the call is at the download
C7_Witness ==
    /\ call[1].pc = "download"
    /\ file.exists
    /\ file.age = 12
    /\ Parsable(file.chunks)

\* C8: a load right after a successful refresh (no other write since, no
\* other call in progress) returns exactly the records the refresh returned.
C8_LoadAfterRefreshIsIdentical ==
    \A t \in Callers :
        (call[t].pc = "done" /\ call[t].outcome = "hit" /\ last_fresh # <<>>) =>
            call[t].result = last_fresh[1]

\* C8 witness: a hit on the snapshot a refresh has just written, with two
\* normalised records (token " 51" -> "51", segment "bfo" -> "BFO", strike
\* 8100000 -> 81000)
C8_Witness ==
    /\ call[1].pc = "done"
    /\ call[1].outcome = "hit"
    /\ last_fresh # <<>>
    /\ Len(call[1].result) = 2
    /\ call[1].result[1].token = <<"5", "1">>
    /\ call[1].result[1].exch_seg = BFO
    /\ call[1].result[1].strike_real = 81000

(***************************************************************************)
(* Claims about the auto refresh loop (Spec, SpecFair)                     *)
(***************************************************************************)
AliveLoops == {t \in Loops : Alive(t)}

\* C1: for every interleaving of start() and stop() at most one polling
\* loop is alive and at most one of the loops is executing refresh_chain.
C1_AtMostOneLoopAndCycle ==
    /\ Cardinality(AliveLoops) <= 1
    /\ Cardinality({t \in Loops : InCycle(t)}) <= 1

\* C2: a manual refresh never executes refresh_chain in parallel with a
\* scheduled cycle.
C2_ManualRefreshNotParallel ==
    \A h \in Handlers : \A t \in Loops : ~(InCycle(h) /\ InCycle(t))

\* C3: after stop() with no start() following, cancellation takes effect
\* only at a cycle boundary: a cycle in flight runs to its end (it moves on,
\* returns or raises, it is never cut), no loop begins a cycle while the
\* flag is off, and every loop exits (the scheduler is Idle).
C3_StopTakesEffectAtCycleBoundary ==
    /\ [][\A t \in Loops :
             /\ (~auto_refresh /\ ~InCycle(t)) => ~InCycle(t)'
             /\ InCycle(t) =>
                   thr'[t].pc \in {"rc_enter", "rc_spot", "rc_quotes", "sleep", "raised"}]_vars
    /\ ~auto_refresh ~> (auto_refresh \/ AliveLoops = {})

\* C3 witness: the switch is off, a loop that was polling has left its while
\* loop after a cycle that filled the table, and no loop is alive
C3_Witness ==
    /\ ~auto_refresh
    /\ \E t \in Loops : thr[t].pc = "exited"
    /\ AliveLoops = {}
    /\ chain_table # <<>>

\* C4: while Polling, a failing cycle does not end polling: no exception
\* reaches the scheduler loop, and a loop is there to start the next cycle.
C4_FailedCycleKeepsPolling ==
    /\ \A t \in Loops : thr[t].pc # "raised"
    /\ auto_refresh => AliveLoops # {}

(***************************************************************************)
(* Claims about get_batch_quotes (checked under SpecQuote)                 *)
(***************************************************************************)
RECURSIVE Concat(_)
Concat(ss) == IF ss = <<>> THEN <<>> ELSE Head(ss) \o Concat(Tail(ss))

Ceil(n, c) == (n + c - 1) \div c

C12_ChunkFailureIsConfined ==
    /\ q_returned \subseteq DOMAIN q_results
    /\ q_failed <= Len(q_sent)
    /\ q_pc = "loop" /\ q_i < Len(q_tokens) => ENABLED GbqChunk
    /\ q_pc = "done" => Len(q_sent) = Ceil(Len(q_tokens), chunk_size)

\* three chunks were requested, one failed, and the tokens of the two others
\* are in the returned dict
C12_Witness ==
    /\ q_pc = "done"
    /\ Len(q_sent) = 3
    /\ q_failed = 1
    /\ Cardinality(q_returned) > chunk_size
    /\ q_returned \subseteq DOMAIN q_results

(***************************************************************************)
(* Claims about a refresh cycle (refresh_chain)                            *)
(***************************************************************************)
\* thread t gets the answer of the spot request and leaves the cycle's
\* second stage, with a zero spot or with no expiry selected
AbortsForNoData(t) ==
    /\ thr[t].pc = "rc_spot"
    /\ thr'[t].pc # "rc_spot"
    /\ spot_display' = 0 \/ exp_dd = ""

\* what such a step does apart from the report: the cycle is over, no quote
\* request was sent, and the rows shown are the ones shown before
AbortsQuietly(t) ==
    /\ thr'[t].pc = AfterReturn(t)
    /\ chain_table' = chain_table
    /\ failed_chunks' = failed_chunks

\* C13: a cycle whose spot is zero, or that finds no expiry selected, ends
\* there: no chain is used, no quote is requested, nothing is priced, the
\* rows emitted before stay as they are, and "no data" is reported.
C13_NoSpotOrExpiryAbortsWithReport ==
    [][\A t \in Threads :
          AbortsForNoData(t) => AbortsQuietly(t) /\ notice'.kind = "no data"]_vars

\* what a cycle computes with when it takes the settings of its start: the
\* radius state.strike_count and the three rates of AppState (the alert
\* threshold is kept in percent)
UsedOfSnapshot(snap) ==
    Used(snap.strike_count, snap.risk_free_rate, snap.model_iv,
         snap.alert_threshold \div 100)

\* C14: a cycle computes with the settings as they were when it started: the
\* radius of its window and the rate, volatility and alert threshold of its
\* rows are those of the snapshot, whatever is typed or saved meanwhile.
C14_CycleUsesSettingsOfItsStart ==
    /\ \A t \in Threads :
          thr[t].pc = "rc_quotes" => thr[t].count = thr[t].snap.strike_count
    /\ cycle_log.used = UsedOfSnapshot(cycle_log.snap)

\* thread t ends a cycle that built its rows
BuildsRows(t) ==
    /\ thr[t].pc = "rc_quotes"
    /\ thr'[t].pc = AfterReturn(t)
    /\ ~RowsRaise(thr[t].chain)

\* C16: when quote requests of a cycle failed, the cycle still builds a row
\* for every strike of its chain from the quotes it got, and the number of
\* failed requests is given to the caller as a PartialQuoteFailure count.
C16_FailedChunksAreCounted ==
    [][\A t \in Threads :
          BuildsRows(t) /\ failed_chunks' > 0 =>
             /\ Len(chain_table') = Len(ChainStrikes(thr[t].chain))
             /\ notice' = Notice("PartialQuoteFailure", failed_chunks')]_vars

(***************************************************************************)
(* Claims about the Auto switch                                            *)
(***************************************************************************)
\* C15: stopping is idempotent: in every state, stopping twice leaves the
\* flag, the switch and the polling threads as stopping once does, and
\* stopping a scheduler that is already stopped changes nothing.
C15_StopIsIdempotent ==
    /\ StopOf(StopOf(SchedState)) = StopOf(SchedState)
    /\ ~auto_refresh /\ ~auto_switch => StopOf(SchedState) = SchedState

\* the switch was turned off while a loop was polling: the flag is down and
\* the thread has not ended yet
C15_Witness ==
    /\ ~auto_refresh
    /\ ~auto_switch
    /\ \E t \in Loops : thr[t].pc \in {"rc_spot", "rc_quotes", "sleep"}

(***************************************************************************)
(* Claims about get_expiries (checked under SpecExp)                       *)
(***************************************************************************)
\* the distinct expiries listed for the symbol
ListedExpiries == ExpirySet(master_data, ex_symbol)

\* those that are a date of today or later
Qualifying ==
    {e \in ListedExpiries : Strptime(e) # <<>> /\ Strptime(e)[1] >= ex_today}

Chronological(list) ==
    \A i, j \in DOMAIN list : i < j => Strptime(list[i])[1] < Strptime(list[j])[1]

\* the result holds every qualifying expiry once, the earliest first
AllQualifyingInOrder ==
    /\ SeqRange(ex_out) = Qualifying
    /\ Len(ex_out) = Cardinality(Qualifying)
    /\ Chronological(ex_out)

\* C17: the result is the list of the distinct expiries of today or later,
\* earliest first, whatever the instrument set (texts that are no date
\* included); when there is none, it is the last five entries of the raw
\* list; and it is empty only when the symbol has no expiry at all.
C17_ExpiriesFromTodayInOrder ==
    ex_pc = "done" =>
       /\ Qualifying # {} => AllQualifyingInOrder
       /\ Qualifying = {} => ex_out = PySlice(ex_list, -5, Len(ex_list))
       /\ ex_out = <<>> <=> ListedExpiries = {}

(***************************************************************************)
(* Claims about the math engine (checked under SpecPrice)                  *)
(***************************************************************************)
IvReturned == pr_pc = "done" /\ pr_in.op = "iv"

\* C18: calculate_implied_volatility ends after at most 5 turns of its loop
\* and the value it returns is at least 0.01, whichever way it leaves the
\* loop (tolerance reached, vega below 1e-5, no d1, all turns used).
C18_ImpliedVolatilityIsFloored ==
    IvReturned =>
       /\ iv_i <= IV_ROUNDS
       /\ iv_exit \in {"tolerance", "vega", "d1", "rounds"}
       /\ pr_out >= IV_FLOOR

PriceReturned == pr_pc = "done" /\ pr_in.op = "price"

\* C19: black_scholes_price returns max(S - K, 0) for a CE and max(K - S, 0)
\* for a PE whenever T <= 0, whatever S, K and sigma are, and returns 0.0
\* whenever T > 0 and one of S, K, sigma is <= 0.
C19_PriceOfDegenerateArguments ==
    PriceReturned =>
       /\ pr_in.T <= 0 =>
             pr_out = IF pr_in.option_type = "CE"
                      THEN Max(pr_in.S - pr_in.K, 0)
                      ELSE Max(pr_in.K - pr_in.S, 0)
       /\ (pr_in.T > 0 /\ (pr_in.S <= 0 \/ pr_in.K <= 0 \/ pr_in.sigma <= 0)) =>
             pr_out = 0

\* an expired call below the money was priced, sigma not positive
C19_Witness ==
    /\ PriceReturned
    /\ pr_in.T < 0
    /\ pr_in.sigma <= 0
    /\ pr_in.option_type = "CE"
    /\ pr_in.S < pr_in.K
    /\ pr_out = 0

(***************************************************************************)
(* Claims about the price stored by get_batch_quotes (under SpecQuote)     *)
(***************************************************************************)
\* the items of the last reply the loop of lines 169-174 got to: those
\* before the first one float() raises for
RECURSIVE ReadItems(_)
ReadItems(fetched) ==
    IF fetched = <<>> \/ Head(fetched).ltp = <<>> THEN <<>>
    ELSE IF Head(fetched).ltp[1] = 0 /\ Head(fetched).close = <<>> THEN <<>>
    ELSE <<Head(fetched)>> \o ReadItems(Tail(fetched))

\* the last traded price when it is not zero, else the previous close
RawPrice(item) == IF item.ltp[1] # 0 THEN item.ltp[1] ELSE item.close[1]

\* C20: for each item of a reply, the price stored for its token is the last
\* traded price when that is not zero and the previous close otherwise,
\* divided by 100 exactly when it exceeds 50000.  Stored prices are in 1/100:
\* raw / 100 is stored as raw, and raw itself as raw * 100.
C20_StoredPriceIsResolvedAndScaled ==
    \A j \in DOMAIN ReadItems(q_fetched) :
       LET item == ReadItems(q_fetched)[j]
           raw == RawPrice(item)
       IN  item.symbolToken # <<>> =>
              /\ item.symbolToken \in DOMAIN q_results
              /\ raw > 50000 => q_results[item.symbolToken] = raw
              /\ raw <= 50000 => q_results[item.symbolToken] = raw * 100

\* a reply was stored that holds a last traded price above 50000, one of
\* exactly 50000, and a zero one whose previous close is above 50000
C20_Witness ==
    /\ \E j \in DOMAIN ReadItems(q_fetched) :
          LET item == ReadItems(q_fetched)[j]
          IN  item.ltp[1] = 50001 /\ q_results[item.symbolToken] = 50001
    /\ \E j \in DOMAIN ReadItems(q_fetched) :
          LET item == ReadItems(q_fetched)[j]
          IN  item.ltp[1] = 50000 /\ q_results[item.symbolToken] = 5000000
    /\ \E j \in DOMAIN ReadItems(q_fetched) :
          LET item == ReadItems(q_fetched)[j]
          IN  item.ltp[1] = 0 /\ item.close[1] = 6000000
              /\ q_results[item.symbolToken] = 6000000

(***************************************************************************)
(* Claims about the rows of a chain (checked under SpecRows)               *)
(***************************************************************************)
RowsBuilt == rows_pc = "done"

\* the records of the chain listed at strike K whose symbol ends in leg
LegsListed(K, leg) ==
    {i \in DOMAIN chain_out :
        /\ chain_out[i].strike_real = K
        /\ EndsWith(chain_out[i].symbol, LegText(leg))}

\* one row per distinct strike of the chain, the lowest strike first
RowPerStrikeAscending ==
    /\ {rows_out[i].strike : i \in DOMAIN rows_out}
          = {chain_out[i].strike_real : i \in DOMAIN chain_out}
    /\ \A i, j \in DOMAIN rows_out : i < j => rows_out[i].strike < rows_out[j].strike

\* the token attached as leg is that of a record listed at the row's strike
\* whose symbol ends in leg, and is empty when there is none
LegJoined(row, tok, leg) ==
    IF LegsListed(row.strike, leg) = {} THEN tok = <<>>
    ELSE \E i \in LegsListed(row.strike, leg) : chain_out[i].token = tok

\* C21: the rows are in ascending strike order, one per distinct strike of
\* the chain; the CE leg of a row is an instrument of its strike whose symbol
\* ends in CE and its PE leg one whose symbol ends in PE; no instrument is
\* attached as the wrong leg or as both legs, and a strike with one leg
\* listed has the other leg empty.
C21_RowsJoinLegsByStrike ==
    RowsBuilt =>
       /\ RowPerStrikeAscending
       /\ \A i \in DOMAIN rows_out :
             /\ LegJoined(rows_out[i], rows_out[i].ce, "CE")
             /\ LegJoined(rows_out[i], rows_out[i].pe, "PE")
             /\ rows_out[i].ce # <<>> => rows_out[i].ce # rows_out[i].pe

(***************************************************************************)
(* Claims about the session headers (checked under SpecEarly)              *)
(***************************************************************************)
\* thread t has sent the spot request or the quote requests of a cycle
Requesting(t) == thr[t].pc \in {"rc_spot", "rc_quotes"}

\* C22: whenever state.master_data is not empty the session headers are set,
\* and no cycle, of the refresh button or of a polling loop, one started
\* before the login included, sends a spot or quote request without them.
C22_NoRequestWithoutHeaders ==
    /\ master_data # <<>> => headers
    /\ \A t \in Threads : Requesting(t) => headers

\* a loop started before the login has run a cycle, which returned at line
\* 336: the headers are not set, the master is empty, the loop sleeps
C22_Witness ==
    /\ ~headers
    /\ master_data = <<>>
    /\ \E t \in Loops : thr[t].pc = "sleep"

====
